---- MODULE Spec2Model ----
(***************************************************************************)
(* Model of the image comparison operator of the RC_metric add-on          *)
(* (src/operators/render_operators.py, class RCMETRICS_OT_Compare).        *)
(*                                                                         *)
(* Images are records [h, w, ch, order, px]: px maps a pixel <<row, col>>  *)
(* to the tuple of its ch 8-bit channel values in array order, and order   *)
(* names the colour layout of the first three array channels ("RGB" or     *)
(* "BGR").  Files on disk hold pixels in RGB(A) order.                     *)
(*                                                                         *)
(* PSNR values are kept exact: [kind |-> "db", num, den] stands for        *)
(* 10*log10(255^2 / (num/den)), i.e. the decibel value of MSE = num/den.   *)
(* SSIM values are kept as the description of what structural_similarity   *)
(* is applied to (channel policy, masking, paired colour channels).        *)
(***************************************************************************)
EXTENDS Integers, Sequences, FiniteSets, TLC

\* ---------------------------------------------------------------- bounds
MaxDim == 12
MaxThickness == 6
MaxCameras == 3
MaxOtherEvents == 1
MaxSelections == 2
MaxRuns == 2
MaxRenders == 2
MaxSide == 11
MaxEntries == 4

\* ------------------------------------------------------ program constants
U8Mod == 256
PixelMax == 255
PsnrSentinel == 100
GaussWin == 11
DefaultWin == 7
MinImageDim == 10
MinImages == 2
EdgeVisAlpha == 200

CompareModes == {"STANDARD", "NO_TRANSPARENT", "EDGES_ONLY"}
SsimModes == {"GRAY", "COLOR", "WEIGHTED"}
DiffViewModes == {"HEATMAP", "GRAYSCALE", "COLORIZED"}

\* ------------------------------------------------------------- arithmetic
Min(a, b) == IF a < b THEN a ELSE b
Max(a, b) == IF a > b THEN a ELSE b
Abs(x) == IF x < 0 THEN 0 - x ELSE x

\* uint8 - uint8 and uint8 ** 2 stay uint8 in numpy: results are taken mod 2^8
U8Sub(a, b) == (a - b) % U8Mod
U8Sq(x) == (x * x) % U8Mod

\* np.clip(x, 0, 255)
Clip255(x) == Max(0, Min(PixelMax, x))

\* f[lo] + ... + f[hi - 1]
RECURSIVE SumRange(_, _, _)
SumRange(f, lo, hi) ==
    IF hi <= lo THEN 0
    ELSE IF hi = lo + 1 THEN f[lo]
    ELSE LET mid == (lo + hi) \div 2
         IN  SumRange(f, lo, mid) + SumRange(f, mid, hi)

SumFn(f, n) == SumRange(f, 0, n)

\* ----------------------------------------------------------------- images
Pixels(h, w) == (0 .. h - 1) \X (0 .. w - 1)

NoImage == [h |-> 0, w |-> 0, ch |-> 0, order |-> "none", px |-> << >>]
HasImage(img) == img.h > 0

\* sum of term(p, c) over every pixel p of an h x w grid and colour channel c
PixelAt(i, w) == <<i \div w, i % w>>

\* cv2.split / cv2.merge([r, g, b, a]) and cv2.cvtColor(.., COLOR_BGR2RGB):
\* exchange array channels 0 and 2
SwapRB(v) ==
    IF Len(v) = 4 THEN <<v[3], v[2], v[1], v[4]>>
    ELSE IF Len(v) = 3 THEN <<v[3], v[2], v[1]>> ELSE v

\* cv2.imread(path, cv2.IMREAD_UNCHANGED): the file's RGB(A) pixels arrive
\* as a BGR(A) uint8 array
imread(file) ==
    [h |-> file.h, w |-> file.w, ch |-> file.ch, order |-> "BGR",
     px |-> [p \in Pixels(file.h, file.w) |-> SwapRB(file.px[p])]]

\* cv2.resize(img, (w, h), interpolation=cv2.INTER_AREA) of a single-colour
\* image: every interpolation of equal values is that value
resize(img, h, w) ==
    [img EXCEPT !.h = h, !.w = w,
                !.px = [p \in Pixels(h, w) |-> img.px[<<0, 0>>]]]

\* cv2.cvtColor(img, COLOR_RGB2GRAY / COLOR_BGR2GRAY) on the first three
\* channels: Y = 0.299 R + 0.587 G + 0.114 B, rounded, with R taken from
\* array channel 0 (RGB2GRAY) or array channel 2 (BGR2GRAY)
GrayOf(v, code) ==
    IF code = "RGB2GRAY"
    THEN (299 * v[1] + 587 * v[2] + 114 * v[3] + 500) \div 1000
    ELSE (114 * v[1] + 587 * v[2] + 299 * v[3] + 500) \div 1000

cvtColorGray(img, code) == [p \in DOMAIN img.px |-> GrayOf(img.px[p], code)]

\* colour named by array channel c (1..3) of an image
ChannelName(img, c) ==
    IF img.order = "RGB" THEN <<"R", "G", "B">>[c] ELSE <<"B", "G", "R">>[c]

\* ---------------------------------------------------------- metric values
PsnrNone == [kind |-> "none", num |-> 0, den |-> 0]
PsnrInf == [kind |-> "inf", num |-> 0, den |-> 0]
PsnrConst(v) == [kind |-> "const", num |-> v, den |-> 1]
PsnrDb(sum, cnt) == [kind |-> "db", num |-> sum, den |-> cnt]

SsimNone == [kind |-> "none", masked |-> FALSE, pairs |-> << >>, same |-> FALSE]
SsimZero == [kind |-> "zero", masked |-> FALSE, pairs |-> << >>, same |-> FALSE]

Report(level, text) == <<level, text>>

\* skimage structural_similarity raises ValueError when the window (11 with
\* gaussian_weights=True, 7 otherwise) exceeds the image extent
ssim_raises(h, w, gaussian) ==
    Min(h, w) < (IF gaussian THEN GaussWin ELSE DefaultWin)

\* ssim(gray1, gray2, data_range=255, gaussian_weights=True, ...)
ssim_gray(rendered_gray, original_gray, masked) ==
    [kind |-> "gray", masked |-> masked,
     pairs |-> << [render |-> "Y", reference |-> "Y"] >>,
     same |-> rendered_gray = original_gray]

ChannelPairs(original, render) ==
    [c \in 1 .. 3 |-> [render |-> ChannelName(render, c),
                       reference |-> ChannelName(original, c)]]

SameColour(original, render) ==
    \A p \in DOMAIN render.px :
        \A c \in 1 .. 3 : render.px[p][c] = original.px[p][c]

\* per-channel SSIM of array channels 0, 1, 2, averaged equally
ssim_color(img1, img2) ==
    [kind |-> "color", masked |-> FALSE, pairs |-> ChannelPairs(img1, img2),
     same |-> SameColour(img1, img2)]

\* per-channel SSIM of array channels 0, 1, 2, combined with weights[0..2]
ssim_weighted(img1, img2) ==
    [kind |-> "weighted", masked |-> FALSE, pairs |-> ChannelPairs(img1, img2),
     same |-> SameColour(img1, img2)]

\* (None, None) from an except branch; mask, valid_pixel_count and mse are
\* the locals the routine had computed when the exception was raised
MetricsRaised(reports, mask, count, num, den) ==
    [psnr |-> PsnrNone, ssim |-> SsimNone, reports |-> reports,
     mask |-> mask, valid_pixel_count |-> count, mse_num |-> num, mse_den |-> den,
     edge_img |-> NoImage]

MetricsFailure(reports) == MetricsRaised(reports, {}, 0, 0, 0)

\* sum over the pixels of mask and the three colour channels of sq(a, b)
SquaredDiffU8(img1, img2, mask) ==
    LET w == img1.w
        f == [i \in 0 .. img1.h * w - 1 |->
                LET p == PixelAt(i, w)
                    a == img1.px[p]
                    b == img2.px[p]
                IN  IF p \in mask
                    THEN U8Sq(U8Sub(a[1], b[1])) + U8Sq(U8Sub(a[2], b[2]))
                         + U8Sq(U8Sub(a[3], b[3]))
                    ELSE 0]
    IN  SumFn(f, img1.h * w)

SquaredDiffFloat(img1, img2, mask) ==
    LET w == img1.w
        f == [i \in 0 .. img1.h * w - 1 |->
                LET p == PixelAt(i, w)
                    a == img1.px[p]
                    b == img2.px[p]
                IN  IF p \in mask
                    THEN (a[1] - b[1]) * (a[1] - b[1])
                         + (a[2] - b[2]) * (a[2] - b[2])
                         + (a[3] - b[3]) * (a[3] - b[3])
                    ELSE 0]
    IN  SumFn(f, img1.h * w)

\* skimage peak_signal_noise_ratio(image_true, image_test) on uint8 images:
\* images converted to float64, err = mean squared error over all elements,
\* 10 * log10(255^2 / err), which is +inf for err = 0
peak_signal_noise_ratio(image_true, image_test) ==
    LET sum == SquaredDiffFloat(image_true, image_test,
                                Pixels(image_true.h, image_true.w))
    IN  IF sum = 0 THEN PsnrInf
        ELSE PsnrDb(sum, image_true.h * image_true.w * 3)

calculate_metrics_standard(render_array, original_img, rc) ==
    LET h == render_array.h
        w == render_array.w
        psnr_value == peak_signal_noise_ratio(original_img, render_array)
        gaussian == rc.ssim_mode \notin {"COLOR", "WEIGHTED"}
        original_gray == cvtColorGray(original_img, "BGR2GRAY")
        rendered_gray == cvtColorGray(render_array, "RGB2GRAY")
        ssim_value ==
            IF rc.ssim_mode = "COLOR" THEN ssim_color(original_img, render_array)
            ELSE IF rc.ssim_mode = "WEIGHTED"
                 THEN ssim_weighted(original_img, render_array)
                 ELSE ssim_gray(rendered_gray, original_gray, FALSE)
    IN  IF ssim_raises(h, w, gaussian)
        THEN MetricsRaised(<< Report("ERROR", "Error calculating standard metrics") >>,
                           Pixels(h, w), h * w, psnr_value.num, h * w * 3)
        ELSE [psnr |-> psnr_value, ssim |-> ssim_value,
              reports |-> << Report("INFO", "Standard metrics") >>,
              mask |-> Pixels(h, w), valid_pixel_count |-> h * w,
              mse_num |-> psnr_value.num, mse_den |-> h * w * 3,
              edge_img |-> NoImage]

\* transparency test that keeps fully opaque pixels only
AlphaMask_OpaqueOnly(render_array) ==
    {p \in Pixels(render_array.h, render_array.w) : render_array.px[p][4] = PixelMax}

\* transparency test that lets alpha = 0 through
AlphaMask_NonNegative(render_array) ==
    {p \in Pixels(render_array.h, render_array.w) : render_array.px[p][4] >= 0}

AlphaMask(render_array) ==
    {p \in Pixels(render_array.h, render_array.w) : render_array.px[p][4] > 0}

MaskGray(gray, mask) == [p \in DOMAIN gray |-> IF p \in mask THEN gray[p] ELSE 0]

TransparencyStats ==
    << Report("INFO", "transparent pixels"), Report("INFO", "opaque pixels") >>

calculate_metrics_no_transparent(render_array, original_img, rc) ==
    LET h == render_array.h
        w == render_array.w
        has_alpha == render_array.ch = 4
        alpha_mask == IF has_alpha THEN AlphaMask(render_array) ELSE Pixels(h, w)
        stats == IF has_alpha THEN TransparencyStats ELSE << >>
        valid_pixel_count == Cardinality(alpha_mask)
        sum == SquaredDiffU8(render_array, original_img, alpha_mask)
        psnr_value == IF sum = 0 THEN PsnrInf
                      ELSE PsnrDb(sum, valid_pixel_count * 3)
        gaussian == rc.ssim_mode \notin {"COLOR", "WEIGHTED"}
        original_gray == cvtColorGray(original_img, "BGR2GRAY")
        rendered_gray == cvtColorGray(render_array, "RGB2GRAY")
        ssim_value ==
            IF rc.ssim_mode = "COLOR" THEN ssim_color(original_img, render_array)
            ELSE IF rc.ssim_mode = "WEIGHTED"
                 THEN ssim_weighted(original_img, render_array)
                 ELSE IF has_alpha
                      THEN ssim_gray(MaskGray(rendered_gray, alpha_mask),
                                     MaskGray(original_gray, alpha_mask), TRUE)
                      ELSE ssim_gray(rendered_gray, original_gray, FALSE)
    IN  IF has_alpha /\ valid_pixel_count = 0
        THEN [psnr |-> PsnrConst(0), ssim |-> SsimZero,
              reports |-> stats \o
                  << Report("WARNING", "No valid (non-transparent) pixels to compare") >>,
              mask |-> alpha_mask, valid_pixel_count |-> 0,
              mse_num |-> 0, mse_den |-> 0, edge_img |-> NoImage]
        ELSE IF ssim_raises(h, w, gaussian)
        THEN MetricsRaised(stats \o
                 << Report("ERROR", "Error calculating no-transparent metrics") >>,
                 alpha_mask, valid_pixel_count, sum, valid_pixel_count * 3)
        ELSE [psnr |-> psnr_value, ssim |-> ssim_value,
              reports |-> stats \o << Report("INFO", "No-transparent metrics") >>,
              mask |-> alpha_mask, valid_pixel_count |-> valid_pixel_count,
              mse_num |-> sum, mse_den |-> valid_pixel_count * 3,
              edge_img |-> NoImage]

\* edge_mask[:t, :], edge_mask[-t:, :], edge_mask[:, :t], edge_mask[:, -t:]
\* set to True: numpy clamps the slice bounds to the array
SliceHead(n, t) == {i \in 0 .. n - 1 : i < t}
\* bottom / right slice that starts one element late
SliceTail_OffByOne(n, t) == {i \in 0 .. n - 1 : i > (IF t = 0 THEN 0 ELSE Max(n - t, 0))}

SliceTail(n, t) == {i \in 0 .. n - 1 : i >= (IF t = 0 THEN 0 ELSE Max(n - t, 0))}

EdgeBand(h, w, t) ==
    {p \in Pixels(h, w) :
        \/ p[1] \in SliceHead(h, t)
        \/ p[1] \in SliceTail(h, t)
        \/ p[2] \in SliceHead(w, t)
        \/ p[2] \in SliceTail(w, t)}

\* the RC_Edge_Mask visualisation: red, alpha 200 on the mask, zero elsewhere
EdgeVis(h, w, edge_mask) ==
    [h |-> h, w |-> w, ch |-> 4, order |-> "RGB",
     px |-> [p \in Pixels(h, w) |->
                IF p \in edge_mask THEN <<PixelMax, 0, 0, EdgeVisAlpha>>
                ELSE <<0, 0, 0, 0>>]]

\* lines 600-623: the band, combined with the transparency mask when the
\* render has an alpha channel, the transparency mask alone when the
\* combination is empty
\* combination without the fallback to the transparency mask
CombineWithAlpha_NoFallback(band, has_alpha, alpha_mask) ==
    IF ~has_alpha THEN band ELSE band \cap alpha_mask

CombineWithAlpha(band, has_alpha, alpha_mask) ==
    IF ~has_alpha THEN band
    ELSE IF Cardinality(band \cap alpha_mask) = 0 THEN alpha_mask
    ELSE band \cap alpha_mask

calculate_metrics_edges_only(render_array, original_img, edge_thickness) ==
    LET h == render_array.h
        w == render_array.w
        band == EdgeBand(h, w, edge_thickness)
        has_alpha == render_array.ch = 4
        alpha_mask == IF has_alpha THEN AlphaMask(render_array) ELSE {}
        combined_mask == band \cap alpha_mask
        fallback == has_alpha /\ Cardinality(combined_mask) = 0
        edge_mask == CombineWithAlpha(band, has_alpha, alpha_mask)
        stats == (IF has_alpha THEN TransparencyStats ELSE << >>) \o
                 (IF fallback
                  THEN << Report("WARNING", "no valid pixels in edge mask combined with alpha") >>
                  ELSE << >>)
        original_gray == cvtColorGray(original_img, "BGR2GRAY")
        rendered_gray == cvtColorGray(render_array, "RGB2GRAY")
        valid_pixel_count == Cardinality(edge_mask)
        squared_diff == SquaredDiffFloat(render_array, original_img, edge_mask)
        psnr_value == IF squared_diff > 0
                      THEN PsnrDb(squared_diff, valid_pixel_count * 3)
                      ELSE PsnrConst(PsnrSentinel)
        ssim_value == ssim_gray(MaskGray(rendered_gray, edge_mask),
                                MaskGray(original_gray, edge_mask), TRUE)
    IN  IF valid_pixel_count = 0
        THEN [psnr |-> PsnrConst(0), ssim |-> SsimZero,
              reports |-> stats \o
                  << Report("WARNING", "No valid edge pixels to compare") >>,
              mask |-> edge_mask, valid_pixel_count |-> 0,
              mse_num |-> 0, mse_den |-> 0, edge_img |-> NoImage]
        ELSE IF ssim_raises(h, w, TRUE)
        THEN MetricsRaised(stats \o
                 << Report("INFO", "mask pixel ratio"),
                    Report("ERROR", "Error calculating edge-only metrics") >>,
                 edge_mask, valid_pixel_count, squared_diff, valid_pixel_count * 3)
        ELSE [psnr |-> psnr_value, ssim |-> ssim_value,
              reports |-> stats \o
                  << Report("INFO", "mask pixel ratio"),
                     Report("INFO", "Edge-only metrics"),
                     Report("INFO", "edge mask image") >>,
              mask |-> edge_mask, valid_pixel_count |-> valid_pixel_count,
              mse_num |-> squared_diff, mse_den |-> valid_pixel_count * 3,
              edge_img |-> EdgeVis(h, w, edge_mask)]

\* ------------------------------------------------------- difference image
\* x * diff_multiplier truncated to uint8 after clipping; the multiplier is
\* held in halves (mul2 = 2 * diff_multiplier)
\* conversion to uint8 without the clip
Scale_Wrap(x, mul2) == ((x * mul2) \div 2) % U8Mod

Scale(x, mul2) == Clip255((x * mul2) \div 2)

\* cv2.applyColorMap(v, cv2.COLORMAP_JET)[c]: entry v of the fixed 256-entry
\* table, channel c
ColormapJet(v, c) == <<"COLORMAP_JET", v, c>>

AbsDiff3(a, b) == <<Abs(a[1] - b[1]), Abs(a[2] - b[2]), Abs(a[3] - b[3])>>

create_diff_image(render_array, original_img, rc) ==
    LET h == render_array.h
        w == render_array.w
        has_alpha == render_array.ch = 4
        alpha_mask == IF has_alpha THEN AlphaMask(render_array) ELSE Pixels(h, w)
        \* cv2.absdiff needs arrays of the same size and channel count
        absdiff_raises == ~has_alpha /\ original_img.ch # 3
        diff_rgb == [p \in Pixels(h, w) |->
                        IF p \in alpha_mask
                        THEN AbsDiff3(render_array.px[p], original_img.px[p])
                        ELSE <<0, 0, 0>>]
        alpha == [p \in Pixels(h, w) |-> IF p \in alpha_mask THEN PixelMax ELSE 0]
        diff_gray == [p \in Pixels(h, w) |->
                         Scale(GrayOf(diff_rgb[p], "RGB2GRAY"), rc.diff_multiplier)]
        view == [p \in Pixels(h, w) |->
                    IF rc.diff_view_mode = "HEATMAP"
                    THEN IF alpha[p] > 0
                         THEN <<ColormapJet(diff_gray[p], 0), ColormapJet(diff_gray[p], 1),
                                ColormapJet(diff_gray[p], 2), alpha[p]>>
                         ELSE <<0, 0, 0, alpha[p]>>
                    ELSE IF rc.diff_view_mode = "GRAYSCALE"
                    THEN IF alpha[p] > 0
                         THEN <<diff_gray[p], diff_gray[p], diff_gray[p], alpha[p]>>
                         ELSE <<0, 0, 0, alpha[p]>>
                    ELSE <<Scale(diff_rgb[p][1], rc.diff_multiplier),
                           Scale(diff_rgb[p][2], rc.diff_multiplier),
                           Scale(diff_rgb[p][3], rc.diff_multiplier), alpha[p]>>]
    IN  IF absdiff_raises
        THEN [img |-> NoImage,
              reports |-> << Report("ERROR", "Error creating difference image") >>]
        ELSE [img |-> [h |-> h, w |-> w, ch |-> 4, order |-> "RGB", px |-> view],
              reports |-> << Report("INFO", "RC_Difference image") >>]

\* ------------------------------------------------- arrays and their buffers
\* A numpy name refers to a buffer.  Slicing (x[:, :, :3]) and plain
\* assignment give a view of the same buffer; np.zeros, np.zeros_like,
\* np.where, astype, copy, comparison, cv2.cvtColor, cv2.absdiff and
\* cv2.merge give a new buffer; t[...] = value stores into the buffer of t.
Alloc(t) == [op |-> "alloc", target |-> t, source |-> t]
View(t, s) == [op |-> "view", target |-> t, source |-> s]
Store(t) == [op |-> "store", target |-> t, source |-> t]

\* t = s: a second name for the buffer of s
zeros_like_Alias(t, s) == View(t, s)

\* t = np.zeros_like(s)
zeros_like(t, s) == Alloc(t)

ArgRender == <<"arg", 1>>
ArgOriginal == <<"arg", 2>>

\* the names a routine starts with: its two array parameters
Params == ("render_array" :> ArgRender) @@ ("original_img" :> ArgOriginal)

Step(m, st, i) ==
    IF st.op = "alloc"
    THEN [m EXCEPT !.binding = (st.target :> <<"new", i>>) @@ m.binding]
    ELSE IF st.op = "view"
    THEN [m EXCEPT !.binding = (st.target :> m.binding[st.source]) @@ m.binding]
    ELSE [m EXCEPT !.stored = @ \cup {m.binding[st.target]}]

RECURSIVE RunFrom(_, _, _)
RunFrom(m, stmts, i) ==
    IF i > Len(stmts) THEN m ELSE RunFrom(Step(m, stmts[i], i), stmts, i + 1)

\* the buffers stored into by the statements, and the buffers of the names
\* in results when the routine returns
Effects(stmts, results) ==
    LET m == RunFrom([binding |-> Params, stored |-> {}], stmts, 1)
    IN  [stored |-> m.stored,
         results |-> {m.binding[n] : n \in results \cap DOMAIN m.binding}]

NoEffects == [stored |-> {}, results |-> {}]

\* calculate_metrics_standard, lines 447-472
standard_statements(ssim_mode) ==
    << View("render_comp", "render_array"), View("original_comp", "original_img") >>
    \o (IF ssim_mode \in {"COLOR", "WEIGHTED"} THEN << >>
        ELSE << Alloc("original_gray"), Alloc("rendered_gray") >>)

\* calculate_metrics_no_transparent, lines 497-567
no_transparent_statements(has_alpha, empty, ssim_mode) ==
    (IF has_alpha
     THEN << View("alpha", "render_array"), Alloc("alpha_mask"),
             View("image1_rgb", "render_array"), View("image2_rgb", "original_img") >>
     ELSE << Alloc("mask"),
             View("image1_rgb", "render_array"), View("image2_rgb", "original_img") >>)
    \o (IF empty \/ ssim_mode \in {"COLOR", "WEIGHTED"} THEN << >>
        ELSE << Alloc("original_gray"), Alloc("rendered_gray") >>
             \o (IF has_alpha
                 THEN << Alloc("rendered_gray_masked"), Alloc("original_gray_masked") >>
                 ELSE << >>))

\* calculate_metrics_edges_only, lines 592-669
edges_only_statements(has_alpha, fallback, empty) ==
    << Alloc("edge_mask"), Store("edge_mask"), Store("edge_mask"),
       Store("edge_mask"), Store("edge_mask") >>
    \o (IF has_alpha
        THEN << Alloc("alpha_mask"), Alloc("combined_mask"),
                (IF fallback THEN Alloc("edge_mask")
                 ELSE View("edge_mask", "combined_mask")) >>
        ELSE << >>)
    \o << View("render_comp", "render_array"), View("original_comp", "original_img"),
          Alloc("original_gray"), Alloc("rendered_gray") >>
    \o (IF empty THEN << >>
        ELSE << zeros_like("render_masked", "render_comp"),
                zeros_like("original_masked", "original_comp"),
                Store("render_masked"), Store("original_masked"),
                Alloc("rendered_gray_masked"), Alloc("original_gray_masked"),
                Alloc("edge_vis"), Store("edge_vis"), Store("edge_vis") >>)

\* create_diff_image, lines 328-397
create_diff_image_statements(has_alpha, absdiff_raises, diff_mode) ==
    IF absdiff_raises THEN << >>
    ELSE (IF has_alpha
          THEN << Alloc("alpha_mask"), zeros_like("diff_img", "render_array"),
                  Store("diff_img"), Store("diff_img") >>
          ELSE << Alloc("diff_img"), Alloc("alpha_channel"), Alloc("diff_img") >>)
         \o (IF diff_mode = "HEATMAP"
             THEN << Alloc("diff_gray"), Alloc("diff_heatmap"), Alloc("alpha_mask"),
                     zeros_like("heatmap_rgba", "diff_img"),
                     Store("heatmap_rgba"), Store("heatmap_rgba"),
                     View("diff_img", "heatmap_rgba") >>
             ELSE IF diff_mode = "GRAYSCALE"
             THEN << Alloc("diff_gray"), Alloc("diff_gray"), Alloc("alpha_mask"),
                     zeros_like("gray_rgba", "diff_img"),
                     Store("gray_rgba"), Store("gray_rgba"),
                     View("diff_img", "gray_rgba") >>
             ELSE << Store("diff_img") >>)
         \o << Alloc("diff_bgra") >>

\* the masks and images a routine builds
ResultNames ==
    {"alpha_mask", "mask", "edge_mask", "edge_vis", "diff_img", "diff_bgra"}

\* what the metric routine of compare_mode does to the buffers
metrics_effects(render_array, original_img, rc) ==
    LET has_alpha == render_array.ch = 4
        alpha_mask == IF has_alpha THEN AlphaMask(render_array) ELSE {}
        band == EdgeBand(render_array.h, render_array.w, rc.edge_thickness)
    IN  IF original_img.ch < 3 THEN NoEffects
        ELSE IF rc.compare_mode = "STANDARD"
        THEN Effects(standard_statements(rc.ssim_mode), ResultNames)
        ELSE IF rc.compare_mode = "NO_TRANSPARENT"
        THEN Effects(no_transparent_statements(has_alpha, has_alpha /\ alpha_mask = {},
                                               rc.ssim_mode), ResultNames)
        ELSE Effects(edges_only_statements(has_alpha,
                         has_alpha /\ band \cap alpha_mask = {},
                         CombineWithAlpha(band, has_alpha, alpha_mask) = {}),
                     ResultNames)

\* what create_diff_image does to the buffers
diff_effects(render_array, original_img, rc) ==
    Effects(create_diff_image_statements(render_array.ch = 4,
                render_array.ch # 4 /\ original_img.ch # 3, rc.diff_view_mode),
            ResultNames)

\* ------------------------------------------------------ batch calculation
\* (src/operators/metrics_operators.py and src/utils/).  A float is the
\* record [num, den] standing for num / den thousandths; den = 0 is +inf.
Float(n) == [num |-> n, den |-> 1]
PosInf == [num |-> 1, den |-> 0]
IsInf(x) == x.den = 0

\* a < b
Less(a, b) ==
    IF IsInf(b) THEN ~IsInf(a)
    ELSE IF IsInf(a) THEN FALSE
    ELSE a.num * b.den < b.num * a.den

\* a + b
Plus(a, b) ==
    IF IsInf(a) \/ IsInf(b) THEN PosInf
    ELSE [num |-> a.num * b.den + b.num * a.den, den |-> a.den * b.den]

\* total / count
Quotient(total, count) ==
    IF IsInf(total) THEN PosInf
    ELSE [num |-> total.num, den |-> total.den * count]

\* d[k] = v on a dict
Put(d, k, v) == (k :> v) @@ d

\* sum(cam[key] for cam in cameras)
RECURSIVE Total(_, _, _)
Total(cams, key, i) ==
    IF i > Len(cams) THEN Float(0)
    ELSE Plus(cams[i][key], Total(cams, key, i + 1))

\* the summary invoke starts from
InitialSummary(mesh_name) ==
    [mesh_name |-> mesh_name, cameras |-> << >>,
     average_psnr |-> Float(0), average_ssim |-> Float(0),
     min_psnr |-> PosInf, min_ssim |-> PosInf,
     max_psnr |-> Float(0), max_ssim |-> Float(0)]

Missing(d, k) == k \notin DOMAIN d

\* d[k] after `if k not in d or v > d[k]: d[k] = v`
UpdateMax(d, k, v) ==
    IF Missing(d, k) \/ Less(d[k], v) THEN v ELSE d[k]

\* d[k] after `if k not in d or v < d[k]: d[k] = v`
UpdateMin(d, k, v) ==
    IF Missing(d, k) \/ Less(v, d[k]) THEN v ELSE d[k]

update_metrics_summary(metrics_summary, camera_name, psnr, ssim) ==
    LET cams == Append(IF Missing(metrics_summary, "cameras") THEN << >>
                       ELSE metrics_summary.cameras,
                       [camera |-> camera_name, psnr |-> psnr, ssim |-> ssim])
        count == Len(cams)
    IN  Put(Put(Put(Put(Put(Put(Put(metrics_summary,
            "cameras", cams),
            "min_psnr", UpdateMin(metrics_summary, "min_psnr", psnr)),
            "max_psnr", UpdateMax(metrics_summary, "max_psnr", psnr)),
            "min_ssim", UpdateMin(metrics_summary, "min_ssim", ssim)),
            "max_ssim", UpdateMax(metrics_summary, "max_ssim", ssim)),
            "average_psnr", Quotient(Total(cams, "psnr", 1), count)),
            "average_ssim", Quotient(Total(cams, "ssim", 1), count))

\* a CameraItem of rc_metrics.cameras
CameraItem(name, enabled) ==
    [name |-> name, enabled |-> enabled, psnr |-> Float(0), ssim |-> Float(0),
     has_results |-> FALSE, is_problematic |-> FALSE]

\* flag computed with non-strict comparisons
Problematic_NonStrict(psnr, ssim, threshold_psnr, threshold_ssim) ==
    ~Less(threshold_psnr, psnr) \/ ~Less(threshold_ssim, ssim)

\* (psnr < threshold_psnr or ssim < threshold_ssim)
Problematic(psnr, ssim, threshold_psnr, threshold_ssim) ==
    Less(psnr, threshold_psnr) \/ Less(ssim, threshold_ssim)

\* index of the first item called camera_name, 0 when there is none
FirstNamed(cams, camera_name) ==
    IF \E i \in DOMAIN cams : cams[i].name = camera_name
    THEN CHOOSE i \in DOMAIN cams :
            /\ cams[i].name = camera_name
            /\ \A j \in 1 .. i - 1 : cams[j].name # camera_name
    ELSE 0

update_camera_results(cams, active, camera_name, psnr, ssim, threshold_psnr, threshold_ssim) ==
    LET i == FirstNamed(cams, camera_name)
    IN  IF i = 0
        THEN [cameras |-> cams, active_camera_index |-> active, found |-> FALSE]
        ELSE [cameras |->
                  [cams EXCEPT ![i] =
                      [@ EXCEPT !.psnr = psnr, !.ssim = ssim, !.has_results = TRUE,
                                !.is_problematic =
                                    Problematic(psnr, ssim, threshold_psnr,
                                                threshold_ssim)]],
              active_camera_index |-> i - 1,
              found |-> TRUE]

\* names of the enabled items that have a CAMERA object, in list order
get_enabled_cameras(cams, objects) ==
    LET enabled == SelectSeq(cams, LAMBDA c : c.enabled /\ c.name \in objects)
    IN  [i \in DOMAIN enabled |-> enabled[i].name]

\* select_single_camera(context, index): the list and the active index
\* afterwards, and the name returned (found is FALSE for None)
select_single_camera(cams, active, index) ==
    LET cleared == [i \in DOMAIN cams |-> [cams[i] EXCEPT !.enabled = FALSE]]
    IN  IF 0 <= index /\ index < Len(cams)
        THEN [cameras |-> [cleared EXCEPT ![index + 1].enabled = TRUE],
              active_camera_index |-> index,
              found |-> TRUE, name |-> cams[index + 1].name]
        ELSE [cameras |-> cleared, active_camera_index |-> active,
              found |-> FALSE, name |-> ""]

\* the cameras ExportResults.execute puts into results["cameras"]
ExportResults_cameras(cams) ==
    LET flagged == SelectSeq(cams, LAMBDA c : c.has_results)
    IN  [i \in DOMAIN flagged |-> flagged[i].name]

\* ------------------------------------------------------------ JSON files
\* the text json.dump writes, as the tree of its values
JNumber(x) == [t |-> "number", v |-> x]
JConst(name) == [t |-> "const", name |-> name]
JString(str) == [t |-> "string", s |-> str]
JArray(items) == [t |-> "array", items |-> items]
JObject(members) == [t |-> "object", members |-> members]
Member(key, value) == [key |-> key, value |-> value]

\* encoder that writes null for a non-finite float
floatstr_Null(o) == IF IsInf(o) THEN JConst("null") ELSE JNumber(o)

\* json.encoder floatstr with allow_nan=True: Infinity for +inf, repr(o)
\* otherwise
floatstr(o) == IF IsInf(o) THEN JConst("Infinity") ELSE JNumber(o)

encode_camera(cam) ==
    JObject(<< Member("camera", JString(cam.camera)),
               Member("psnr", floatstr(cam.psnr)),
               Member("ssim", floatstr(cam.ssim)) >>)

\* the keys of the summary in insertion order
SummaryKeys ==
    << "mesh_name", "cameras", "average_psnr", "average_ssim",
       "min_psnr", "min_ssim", "max_psnr", "max_ssim" >>

encode_value(data, key) ==
    IF key = "mesh_name" THEN JString(data[key])
    ELSE IF key = "cameras"
    THEN JArray([i \in DOMAIN data[key] |-> encode_camera(data[key][i])])
    ELSE floatstr(data[key])

\* json.dump(data, f, indent=4) of a metrics summary
json_dump(data) ==
    LET keys == SelectSeq(SummaryKeys, LAMBDA k : k \in DOMAIN data)
    IN  JObject([i \in DOMAIN keys |-> Member(keys[i], encode_value(data, keys[i]))])

\* None
None == [none |-> TRUE]

\* json.load: objects become dicts (the last member of a key wins), arrays
\* lists, number literals the float they print, Infinity +inf, null None
RECURSIVE json_load(_)
json_load(j) ==
    IF j.t = "object"
    THEN [k \in {j.members[i].key : i \in DOMAIN j.members} |->
             json_load(j.members[CHOOSE i \in DOMAIN j.members :
                                    /\ j.members[i].key = k
                                    /\ \A n \in DOMAIN j.members :
                                          j.members[n].key = k => n <= i].value)]
    ELSE IF j.t = "array" THEN [i \in DOMAIN j.items |-> json_load(j.items[i])]
    ELSE IF j.t = "string" THEN j.s
    ELSE IF j.t = "number" THEN j.v
    ELSE IF j.name = "Infinity" THEN PosInf
    ELSE None

NoFile == [exists |-> FALSE, text |-> JConst("null")]
FileOf(text) == [exists |-> TRUE, text |-> text]

\* save_json(data, filepath): the file afterwards and the value returned;
\* creatable says whether the directory exists or os.makedirs succeeds
save_json(data, file, creatable) ==
    IF ~creatable THEN [file |-> file, returned |-> FALSE]
    ELSE [file |-> FileOf(json_dump(data)), returned |-> TRUE]

\* load_json(filepath)
load_json(file) == IF ~file.exists THEN None ELSE json_load(file.text)

\* ------------------------------------------------------------------ state
VARIABLES
    render_file,    \* PNG behind bpy.data.images["RC_Current_Render"]
    bg_file,        \* file of the active camera's background image
    env,            \* what execute finds: images, camera, readable files
    rc_metrics,     \* context.scene.rc_metrics
    RC_Difference,  \* bpy.data.images["RC_Difference"]
    RC_Edge_Mask,   \* bpy.data.images["RC_Edge_Mask"]
    reports,        \* self.report(...) calls, in order
    result,         \* return value of execute, "NONE" before it ran
    metrics,        \* what the metric routine of the run computed
    arrays,         \* render_array and original_img as execute leaves them
    cameras,        \* rc_metrics.cameras, the camera list of the panel
    scene,          \* what the batch finds: mesh, camera objects, images
    rc_calc,        \* context.scene.rc_metrics, fields of the batch run
    op,             \* the RCMETRICS_OT_CalculateMetrics instance
    files,          \* JSON files on disk
    loaded,         \* what load_json returned
    render_scene,   \* what RCMETRICS_OT_Render works on: objects, settings
    render_op,      \* the RCMETRICS_OT_Render instance and its locals
    image_metrics,  \* a call of image_utils.calculate_image_metrics
    folder          \* a folder and what check_rc_folder_structure said

compare_vars == <<render_file, bg_file, env, rc_metrics, RC_Difference,
                  RC_Edge_Mask, result, metrics, arrays>>

batch_vars == <<cameras, scene, rc_calc, op, files, loaded>>

tool_vars == <<render_scene, render_op, image_metrics, folder>>

vars == <<render_file, bg_file, env, rc_metrics, RC_Difference, RC_Edge_Mask,
          reports, result, metrics, arrays, cameras, scene, rc_calc, op, files,
          loaded, render_scene, render_op, image_metrics, folder>>

NoMetrics == MetricsFailure(<< >>)

\* the two arrays handed to the routines, the argument buffers the routines
\* stored into, and the buffers of the masks and images they built
NoArrays == [render_array |-> NoImage, original_img |-> NoImage,
             stored |-> {}, results |-> {}]

Loaded(ld, stored, results) ==
    [render_array |-> ld.render_array, original_img |-> ld.original_img,
     stored |-> stored, results |-> results]

\* render_array after lines 709-720: read as BGR(A), reordered to RGB(A)
to_rgb(arr) ==
    [arr EXCEPT !.order = "RGB", !.px = [p \in DOMAIN arr.px |-> SwapRB(arr.px[p])]]

\* loading that fits the render to the reference photo
load_images_ResizeRender(rfile, ofile, e) ==
    LET fail(text) == [ok |-> FALSE, reports |-> << Report("ERROR", text) >>,
                       render_array |-> NoImage, original_img |-> NoImage]
    IN  IF ~e.render_img THEN fail("No render available")
        ELSE IF ~e.render_readable THEN fail("Failed to read render image")
        ELSE IF rfile.ch < 3 THEN fail("Unexpected error")
        ELSE IF ~e.camera THEN fail("No active camera selected")
        ELSE IF ~e.bg_image THEN fail("Active camera does not have a background image")
        ELSE IF ~e.original_readable THEN fail("Failed to load original image")
        ELSE [ok |-> TRUE, reports |-> << >>,
              render_array |->
                  IF <<ofile.h, ofile.w>> # <<rfile.h, rfile.w>>
                  THEN resize(to_rgb(imread(rfile)), ofile.h, ofile.w)
                  ELSE to_rgb(imread(rfile)),
              original_img |-> imread(ofile)]

\* execute up to line 751: what it reports and returns when something is
\* missing, the two arrays otherwise
load_images(rfile, ofile, e) ==
    LET fail(text) == [ok |-> FALSE, reports |-> << Report("ERROR", text) >>,
                       render_array |-> NoImage, original_img |-> NoImage]
    IN  IF ~e.render_img THEN fail("No render available")
        ELSE IF ~e.render_readable THEN fail("Failed to read render image")
        ELSE IF rfile.ch < 3 THEN fail("Unexpected error")
        ELSE IF ~e.camera THEN fail("No active camera selected")
        ELSE IF ~e.bg_image THEN fail("Active camera does not have a background image")
        ELSE IF ~e.original_readable THEN fail("Failed to load original image")
        ELSE [ok |-> TRUE, reports |-> << >>,
              render_array |-> to_rgb(imread(rfile)),
              original_img |->
                  IF <<ofile.h, ofile.w>> # <<rfile.h, rfile.w>>
                  THEN resize(imread(ofile), rfile.h, rfile.w)
                  ELSE imread(ofile)]

\* execute lines 753-763: the routine of the selected compare_mode
calculate_metrics(render_array, original_img, rc) ==
    IF original_img.ch < 3
    THEN MetricsFailure(<< Report("ERROR", "Error calculating metrics") >>)
    ELSE IF rc.compare_mode = "STANDARD"
    THEN calculate_metrics_standard(render_array, original_img, rc)
    ELSE IF rc.compare_mode = "NO_TRANSPARENT"
    THEN calculate_metrics_no_transparent(render_array, original_img, rc)
    ELSE calculate_metrics_edges_only(render_array, original_img, rc.edge_thickness)

\* every pair of values is stored and displayed
Valid_Unchecked(m) == TRUE

\* psnr_value is not None and ssim_value is not None
Valid(m) == m.psnr.kind # "none" /\ m.ssim.kind # "none"

\* RCMETRICS_OT_Compare.execute
Compare_execute ==
    /\ result = "NONE"
    /\ \E ld \in {load_images(render_file, bg_file, env)} :
        IF ~ld.ok
        THEN /\ result' = "CANCELLED"
             /\ reports' = reports \o ld.reports
             /\ UNCHANGED <<rc_metrics, RC_Difference, RC_Edge_Mask, metrics, arrays>>
        ELSE \E m \in {calculate_metrics(ld.render_array, ld.original_img, rc_metrics)},
                me \in {metrics_effects(ld.render_array, ld.original_img, rc_metrics)} :
            IF Valid(m)
            THEN \E d \in {create_diff_image(ld.render_array, ld.original_img, rc_metrics)},
                    de \in {diff_effects(ld.render_array, ld.original_img, rc_metrics)} :
                 /\ rc_metrics' = [rc_metrics EXCEPT !.last_psnr = m.psnr,
                                                     !.last_ssim = m.ssim]
                 /\ RC_Difference' = IF HasImage(d.img) THEN d.img ELSE RC_Difference
                 /\ RC_Edge_Mask' = IF HasImage(m.edge_img) THEN m.edge_img
                                    ELSE RC_Edge_Mask
                 /\ metrics' = [m EXCEPT !.reports = << >>, !.edge_img = NoImage]
                 /\ reports' = reports \o m.reports \o d.reports \o
                               << Report("INFO", "Image comparison complete") >>
                 /\ arrays' = Loaded(ld, me.stored \cup de.stored,
                                     me.results \cup de.results)
                 /\ result' = "FINISHED"
            ELSE /\ metrics' = [m EXCEPT !.reports = << >>, !.edge_img = NoImage]
                 /\ reports' = reports \o m.reports \o
                               << Report("ERROR", "Failed to calculate image metrics") >>
                 /\ arrays' = Loaded(ld, me.stored, me.results)
                 /\ result' = "CANCELLED"
                 /\ UNCHANGED <<rc_metrics, RC_Difference, RC_Edge_Mask>>
    /\ UNCHANGED <<render_file, bg_file, env>>
    /\ UNCHANGED <<batch_vars, tool_vars>>

\* ----------------------------------------------------- batch: the handlers
\* the operator before invoke
NoOperator ==
    [status |-> "NONE", _camera_queue |-> << >>, _total_cameras |-> 0,
     _metrics_summary |-> << >>, _timer |-> FALSE, other_events |-> 0,
     instance |-> 1]

\* the batch properties as registered: thresholds 30.0 and 0.9, nothing
\* calculated
CalcProps(psnr_threshold, ssim_threshold, save_renders, metrics_output) ==
    [psnr_threshold |-> psnr_threshold, ssim_threshold |-> ssim_threshold,
     save_renders |-> save_renders, metrics_output |-> metrics_output,
     is_calculating |-> FALSE, calculation_progress |-> Float(0),
     current_camera |-> "", has_results |-> FALSE,
     average_psnr |-> Float(0), average_ssim |-> Float(0),
     active_camera_index |-> 0 - 1]

\* what rendering, loading and comparing give for one camera
Outcome(render, reference, measured, psnr, ssim) ==
    [render |-> render, reference |-> reference, measured |-> measured,
     psnr |-> psnr, ssim |-> ssim]

CameraReport(level, text, name) == <<level, text, name>>

\* usable as soon as both images exist
Usable_IgnoresMetrics(outcome) == outcome.reference /\ outcome.render

\* ref_img and rendered_img are not None and neither is psnr or ssim
Usable(outcome) == outcome.reference /\ outcome.render /\ outcome.measured

\* process_camera(context, camera)
process_camera(summary, cams, rc, outcome, camera) ==
    LET start == CameraReport("INFO",
                     IF rc.save_renders THEN "Rendering from camera"
                     ELSE "Processing camera", camera)
        s == update_metrics_summary(summary, camera, outcome.psnr, outcome.ssim)
        u == update_camera_results(cams, rc.active_camera_index, camera,
                                   outcome.psnr, outcome.ssim,
                                   rc.psnr_threshold, rc.ssim_threshold)
    IN  IF Usable(outcome)
        THEN [summary |-> s, cameras |-> u.cameras,
              rc |-> [rc EXCEPT !.active_camera_index = u.active_camera_index,
                                !.average_psnr = s.average_psnr,
                                !.average_ssim = s.average_ssim,
                                !.has_results = TRUE],
              reports |-> << start >> \o
                  (IF u.found THEN << >>
                   ELSE << CameraReport("WARNING", "Failed to update UI", camera) >>)
                  \o << CameraReport("INFO", "Camera results", camera) >>,
              returned |-> TRUE]
        ELSE [summary |-> summary, cameras |-> cams, rc |-> rc,
              reports |-> << start,
                  CameraReport("WARNING", "Could not calculate metrics", camera) >>,
              returned |-> FALSE]

\* CalculateMetrics.invoke
invoke ==
    /\ op.status = "NONE"
    /\ LET queue == get_enabled_cameras(cameras, scene.objects)
           default_output == rc_calc.metrics_output = "" /\ rc_calc.save_renders
           rc1 == IF default_output
                  THEN [rc_calc EXCEPT !.metrics_output = "rc_folder/metrics_output"]
                  ELSE rc_calc
           cancelled(text) ==
               /\ reports' = reports \o << Report("ERROR", text) >>
               /\ UNCHANGED <<cameras, scene, files, loaded>>
       IN  IF ~scene.mesh
           THEN /\ cancelled("Please select a mesh object to evaluate")
                /\ op' = [op EXCEPT !.status = "CANCELLED"]
                /\ UNCHANGED rc_calc
           ELSE IF default_output /\ ~scene.makedirs_ok
           THEN /\ cancelled("Could not create output directory")
                /\ op' = [op EXCEPT !.status = "CANCELLED"]
                /\ rc_calc' = rc1
           ELSE IF Len(queue) = 0
           THEN /\ cancelled("No cameras selected for calculation")
                /\ op' = [op EXCEPT !.status = "CANCELLED", !._camera_queue = queue]
                /\ rc_calc' = rc1
           ELSE IF rc_calc.save_renders /\ ~scene.makedirs_ok
           THEN /\ cancelled("Could not create render output directory")
                /\ op' = [op EXCEPT !.status = "CANCELLED", !._camera_queue = queue,
                                    !._total_cameras = Len(queue),
                                    !._metrics_summary =
                                        InitialSummary(scene.mesh_name)]
                /\ rc_calc' = rc1
           ELSE /\ op' = [op EXCEPT !.status = "RUNNING_MODAL",
                                    !._camera_queue = queue,
                                    !._total_cameras = Len(queue),
                                    !._metrics_summary =
                                        InitialSummary(scene.mesh_name),
                                    !._timer = TRUE]
                /\ rc_calc' = [rc1 EXCEPT !.is_calculating = TRUE,
                                          !.calculation_progress = Float(0),
                                          !.has_results = FALSE]
                /\ reports' = reports \o << Report("INFO", "Starting calculation") >>
                /\ UNCHANGED <<cameras, scene, files, loaded>>
    /\ UNCHANGED <<compare_vars, tool_vars>>

\* queue.pop() takes the last camera
pop0_Last(queue) ==
    [camera |-> queue[Len(queue)], rest |-> SubSeq(queue, 1, Len(queue) - 1)]

\* camera = self._camera_queue.pop(0)
pop0(queue) == [camera |-> Head(queue), rest |-> Tail(queue)]

\* the share of the queue that is left: 100.0 * len(queue) / total
Progress_Remaining(remaining, total) == [num |-> 100000 * remaining, den |-> total]

\* 100.0 * (1.0 - len(queue) / total), in thousandths
Progress(remaining, total) == [num |-> 100000 * (total - remaining), den |-> total]

\* a modal that never looks at the flag
ShouldCancel_Never(rc) == FALSE

\* if not rc_metrics.is_calculating
ShouldCancel(rc) == ~rc.is_calculating

\* the file is written whenever renders are saved
ShouldWrite_WithoutResults(rc) == rc.save_renders

\* if rc_metrics.has_results and rc_metrics.save_renders
ShouldWrite(rc) == rc.has_results /\ rc.save_renders

\* CalculateMetrics.modal(context, event), with cancel, process_camera and
\* finish_calculation
modal(type) ==
    /\ op.status = "RUNNING_MODAL"
    /\ type = "TIMER" => op._timer
    /\ (type # "TIMER" /\ rc_calc.is_calculating) => op.other_events < MaxOtherEvents
    /\ IF ShouldCancel(rc_calc)
       THEN /\ op' = [op EXCEPT !.status = "CANCELLED", !._timer = FALSE]
            /\ rc_calc' = [rc_calc EXCEPT !.is_calculating = FALSE,
                                          !.current_camera = ""]
            /\ reports' = reports \o << Report("INFO", "Calculation cancelled") >>
            /\ UNCHANGED <<cameras, files>>
       ELSE IF type # "TIMER"
       THEN /\ op' = [op EXCEPT !.other_events = @ + 1]
            /\ UNCHANGED <<cameras, rc_calc, files, reports>>
       ELSE IF Len(op._camera_queue) > 0
       THEN \E next \in {pop0(op._camera_queue)} :
            \E r \in {process_camera(op._metrics_summary, cameras,
                           [rc_calc EXCEPT !.current_camera = next.camera,
                                           !.calculation_progress =
                                               Progress(Len(next.rest),
                                                        op._total_cameras)],
                           scene.outcome[next.camera], next.camera)} :
                /\ op' = [op EXCEPT !._camera_queue = next.rest,
                                    !._metrics_summary = r.summary]
                /\ cameras' = r.cameras
                /\ rc_calc' = r.rc
                /\ reports' = reports \o r.reports
                /\ UNCHANGED files
       ELSE LET write == ShouldWrite(rc_calc)
            IN  /\ files' = IF write
                            THEN [files EXCEPT !.metrics_file =
                                     FileOf(json_dump(op._metrics_summary))]
                            ELSE files
                /\ rc_calc' = [rc_calc EXCEPT !.is_calculating = FALSE,
                                              !.calculation_progress = Float(100000),
                                              !.current_camera = ""]
                /\ reports' = reports
                       \o (IF write THEN << Report("INFO", "Metrics saved") >>
                           ELSE << >>)
                       \o << Report("INFO", "Calculation completed"),
                             Report("INFO", "Average PSNR and SSIM") >>
                /\ op' = [op EXCEPT !.status = "FINISHED"]
                /\ UNCHANGED cameras
    /\ UNCHANGED <<scene, loaded>>
    /\ UNCHANGED <<compare_vars, tool_vars>>

\* RCMETRICS_OT_CancelCalculation.execute; the panel shows its button while
\* is_calculating is set
CancelCalculation_execute ==
    /\ rc_calc.is_calculating
    /\ rc_calc' = [rc_calc EXCEPT !.is_calculating = FALSE]
    /\ reports' = reports \o << Report("INFO", "Calculation cancelled") >>
    /\ UNCHANGED <<cameras, scene, op, files, loaded>>
    /\ UNCHANGED <<compare_vars, tool_vars>>

\* save_json(summary, filepath) on the summary of the run
save_json_call ==
    /\ op.status \in {"RUNNING_MODAL", "FINISHED", "CANCELLED"}
    /\ DOMAIN op._metrics_summary # {}
    /\ ~files.json_file.exists /\ ~files.save_called
    /\ \E r \in {save_json(op._metrics_summary, files.json_file, scene.makedirs_ok)} :
           files' = [files EXCEPT !.json_file = r.file, !.save_called = TRUE,
                                  !.save_returned = r.returned,
                                  !.saved_data = op._metrics_summary]
    /\ UNCHANGED <<cameras, scene, rc_calc, op, loaded, reports>>
    /\ UNCHANGED <<compare_vars, tool_vars>>

\* load_json(filepath) after the save
load_json_call ==
    /\ files.save_called
    /\ ~loaded.called
    /\ loaded' = [called |-> TRUE, data |-> load_json(files.json_file)]
    /\ UNCHANGED <<cameras, scene, rc_calc, op, files, reports>>
    /\ UNCHANGED <<compare_vars, tool_vars>>

\* reports of RCMETRICS_OT_SelectCamera so far
SelectReports ==
    Len(SelectSeq(reports, LAMBDA r : r[2] \in {"Selected camera",
                                                "No camera selected"}))

\* RCMETRICS_OT_SelectCamera.execute with the operator's camera_index; a
\* camera that is found becomes the active object of the view layer
SelectCamera_execute(camera_index) ==
    /\ SelectReports < MaxSelections
    /\ LET index == IF camera_index = 0 - 1 THEN rc_calc.active_camera_index
                    ELSE camera_index
       IN  \E r \in {select_single_camera(cameras, rc_calc.active_camera_index,
                                          index)} :
               /\ cameras' = r.cameras
               /\ rc_calc' = [rc_calc EXCEPT !.active_camera_index =
                                                 r.active_camera_index]
               /\ IF r.found /\ r.name # ""
                  THEN /\ reports' = reports \o
                               << CameraReport("INFO", "Selected camera", r.name) >>
                       /\ scene' = IF r.name \in scene.objects
                                   THEN [scene EXCEPT !.mesh = FALSE]
                                   ELSE scene
                  ELSE /\ reports' = reports \o
                               << Report("ERROR", "No camera selected") >>
                       /\ UNCHANGED scene
    /\ UNCHANGED <<op, files, loaded>>
    /\ UNCHANGED <<compare_vars, tool_vars>>

\* the button is pressed again after the operator ended: Blender builds a
\* new RCMETRICS_OT_CalculateMetrics for the call
operator_new ==
    /\ op.status \in {"FINISHED", "CANCELLED"}
    /\ op.instance < MaxRuns
    /\ op' = [NoOperator EXCEPT !.instance = op.instance + 1]
    /\ UNCHANGED <<cameras, scene, rc_calc, files, loaded, reports>>
    /\ UNCHANGED <<compare_vars, tool_vars>>

\* the user makes the mesh the active object again
activate_mesh ==
    /\ ~scene.mesh
    /\ scene' = [scene EXCEPT !.mesh = TRUE]
    /\ UNCHANGED <<cameras, rc_calc, op, files, loaded, reports>>
    /\ UNCHANGED <<compare_vars, tool_vars>>

\* ----------------------------------------------------------------- inputs
Grey(v) == <<v, v, v>>
Palette == {Grey(0), Grey(100), Grey(110), Grey(116), Grey(255),
            <<255, 0, 0>>, <<10, 20, 30>>, <<0, 0, 255>>}

AlphaPatterns == {"opaque", "clear", "interior", "border", "corner"}

\* alpha value of pixel p of an h x w render
AlphaOf(pattern, h, w, p) ==
    LET on_border == p[1] = 0 \/ p[1] = h - 1 \/ p[2] = 0 \/ p[2] = w - 1
    IN  IF pattern = "opaque" THEN PixelMax
        ELSE IF pattern = "clear" THEN 0
        ELSE IF pattern = "interior" THEN (IF on_border THEN 0 ELSE PixelMax)
        ELSE IF pattern = "border" THEN (IF on_border THEN 128 ELSE 0)
        ELSE (IF p = <<0, 0>> THEN 1 ELSE 0)

\* a render of one colour; with film_transparent the pixels the mesh does
\* not cover are written with alpha 0 and black colour
RenderFile(h, w, ch, colour, pattern) ==
    [h |-> h, w |-> w, ch |-> ch,
     px |-> [p \in Pixels(h, w) |->
                IF ch = 4
                THEN IF AlphaOf(pattern, h, w, p) > 0
                     THEN colour \o <<AlphaOf(pattern, h, w, p)>>
                     ELSE <<0, 0, 0, 0>>
                ELSE IF ch = 3 THEN colour ELSE <<colour[1]>>]]

PhotoFile(h, w, ch, colour) ==
    [h |-> h, w |-> w, ch |-> ch,
     px |-> [p \in Pixels(h, w) |->
                IF ch = 4 THEN colour \o <<PixelMax>>
                ELSE IF ch = 3 THEN colour ELSE <<colour[1]>>]]

RenderShapes == {<<3, "opaque">>} \cup ({4} \X AlphaPatterns)

EnvOk == [render_img |-> TRUE, render_readable |-> TRUE, camera |-> TRUE,
          bg_image |-> TRUE, original_readable |-> TRUE]

EnvFailures ==
    {[EnvOk EXCEPT !.render_img = FALSE], [EnvOk EXCEPT !.render_readable = FALSE],
     [EnvOk EXCEPT !.camera = FALSE], [EnvOk EXCEPT !.bg_image = FALSE],
     [EnvOk EXCEPT !.original_readable = FALSE]}

Props(mode, t, ssim_mode, view, mul2) ==
    [compare_mode |-> mode, edge_thickness |-> t, ssim_mode |-> ssim_mode,
     diff_view_mode |-> view, diff_multiplier |-> mul2,
     last_psnr |-> PsnrConst(0), last_ssim |-> SsimZero]

Multipliers == {2, 3, 10, 40}

\* sizes, thickness and transparency vary; colours and views are fixed
InitGeometry ==
    \E h \in 1 .. MaxDim, w \in 1 .. MaxDim, t \in 1 .. MaxThickness,
       shape \in RenderShapes, mode \in CompareModes :
        /\ mode # "EDGES_ONLY" => t = 1
        /\ render_file = RenderFile(h, w, shape[1], Grey(100), shape[2])
        /\ bg_file = PhotoFile(h, w, 3, Grey(110))
        /\ env = EnvOk
        /\ rc_metrics = Props(mode, t, "GRAY", "COLORIZED", 2)

\* colours and metric policies vary on images the SSIM windows fit in
InitValues ==
    \E rc \in Palette, oc \in Palette, och \in {3, 4},
       shape \in {<<3, "opaque">>, <<4, "opaque">>, <<4, "interior">>},
       mode \in CompareModes, ssim_mode \in SsimModes :
        /\ render_file = RenderFile(GaussWin, GaussWin, shape[1], rc, shape[2])
        /\ bg_file = PhotoFile(GaussWin, GaussWin, och, oc)
        /\ env = EnvOk
        /\ rc_metrics = Props(mode, 2, ssim_mode, "COLORIZED", 2)

\* difference views and multipliers vary
InitViews ==
    \E rc \in {Grey(100), <<10, 20, 30>>}, oc \in {Grey(116), <<255, 0, 0>>},
       och \in {3, 4},
       shape \in {<<3, "opaque">>, <<4, "opaque">>, <<4, "interior">>, <<4, "clear">>},
       mode \in CompareModes, view \in DiffViewModes, mul2 \in Multipliers :
        /\ render_file = RenderFile(GaussWin, GaussWin + 1, shape[1], rc, shape[2])
        /\ bg_file = PhotoFile(GaussWin, GaussWin + 1, och, oc)
        /\ env = EnvOk
        /\ rc_metrics = Props(mode, 1, "GRAY", view, mul2)

\* the reference photo has another size than the render
InitResize ==
    \E oh \in {5, GaussWin, 2 * GaussWin}, ow \in {5, GaussWin + 1, 2 * GaussWin},
       shape \in {<<3, "opaque">>, <<4, "interior">>}, mode \in CompareModes :
        /\ <<oh, ow>> # <<GaussWin, GaussWin>>
        /\ render_file = RenderFile(GaussWin, GaussWin, shape[1], Grey(100), shape[2])
        /\ bg_file = PhotoFile(oh, ow, 3, Grey(110))
        /\ env = EnvOk
        /\ rc_metrics = Props(mode, 3, "GRAY", "COLORIZED", 10)

\* something execute needs is missing or unusable
InitFailures ==
    \E e \in EnvFailures \cup {EnvOk}, rch \in {1, 4}, och \in {1, 3},
       mode \in CompareModes :
        /\ e = EnvOk => (rch = 1 \/ och = 1)
        /\ render_file = RenderFile(GaussWin, GaussWin, rch, Grey(100), "opaque")
        /\ bg_file = PhotoFile(GaussWin, GaussWin, och, Grey(110))
        /\ env = e
        /\ rc_metrics = Props(mode, 1, "GRAY", "COLORIZED", 10)

\* --------------------------------------------------- the render operator
\* temp_render_<timestamp>.png in the temporary directory
TempFile == "tmp/temp_render.png"

RenderSettings(filepath, file_format, color_mode, film_transparent) ==
    [filepath |-> filepath, file_format |-> file_format,
     color_mode |-> color_mode, film_transparent |-> film_transparent]

Object(type, hide_render) == [type |-> type, hide_render |-> hide_render]

Collection(objects, children) == [objects |-> objects, children |-> children]

MeshNames(objects) == {n \in DOMAIN objects : objects[n].type = "MESH"}

\* a property value that counts as a selection
Selected(name) == name # "" /\ name # "None"

\* check_active_camera: the report of the failure, << >> when the camera is
\* there and has a background image
check_active_camera(sc) ==
    IF ~sc.camera THEN << Report("ERROR", "No active camera") >>
    ELSE IF ~sc.bg_image
         THEN << Report("ERROR", "Active camera does not have a background image assigned") >>
         ELSE << >>

\* get_objects_from_collection: the mesh objects of a collection and of its
\* child collections
RECURSIVE get_objects_from_collection(_, _)
get_objects_from_collection(sc, coll) ==
    {n \in sc.collections[coll].objects : sc.objects[n].type = "MESH"}
        \cup UNION {get_objects_from_collection(sc, child) :
                       child \in sc.collections[coll].children}

\* hide_render = False on the meshes named in shown, True on the other meshes
ShowOnly(objects, shown) ==
    [n \in DOMAIN objects |->
        IF objects[n].type = "MESH"
        THEN [objects[n] EXCEPT !.hide_render = n \notin shown]
        ELSE objects[n]]

\* setup_scene_for_rendering: the objects as it leaves them, the visibilities
\* it recorded first and its report
setup_scene_for_rendering(sc, render_selected_only, selection_type, selected_mesh, selected_collection) ==
    LET original_visibilities ==
            [n \in MeshNames(sc.objects) |-> sc.objects[n].hide_render]
        kept(objects, said) ==
            [objects |-> objects, original_visibilities |-> original_visibilities,
             reports |-> said]
    IN  IF ~render_selected_only THEN kept(sc.objects, << >>)
        ELSE IF selection_type = "MESH" /\ selected_mesh # ""
        THEN kept(ShowOnly(sc.objects, {selected_mesh}),
                  << Report("INFO", "Rendering only selected mesh") >>)
        ELSE IF selection_type = "COLLECTION" /\ selected_collection # ""
        THEN kept(IF selected_collection \in DOMAIN sc.collections
                  THEN ShowOnly(sc.objects,
                                get_objects_from_collection(sc, selected_collection))
                  ELSE sc.objects,
                  << Report("INFO", "Rendering only objects in collection") >>)
        ELSE kept(sc.objects, << >>)

\* the visibilities stay as the setup left them
restore_scene_after_rendering_Skipped(objects, original_visibilities) == objects

\* restore_scene_after_rendering
restore_scene_after_rendering(objects, original_visibilities) ==
    [n \in DOMAIN objects |->
        IF n \in DOMAIN original_visibilities
        THEN [objects[n] EXCEPT !.hide_render = original_visibilities[n]]
        ELSE objects[n]]

\* what the render and the reading of its file can do
RenderOutcomes == {"rendered", "not_created", "unreadable", "render_raises", "load_raises"}

\* render_current_view: the render settings as it leaves them, whether it
\* returned a render, whether RC_Current_Render exists afterwards, its reports
render_current_view(settings, has_image, outcome) ==
    LET original == settings
        rendering == RenderSettings(TempFile, "PNG", "RGBA", TRUE)
        started == << Report("INFO", "Rendering to temporary file"),
                      Report("INFO", "Transparent background enabled for rendering") >>
        left(s, render_array, image, said) ==
            [settings |-> s, render_array |-> render_array, image |-> image,
             reports |-> started \o said]
    IN  IF outcome = "render_raises"
        THEN left(original, FALSE, has_image,
                  << Report("ERROR", "Error rendering view") >>)
        ELSE IF outcome = "not_created"
        THEN left(rendering, FALSE, has_image,
                  << Report("ERROR", "Temporary render file was not created") >>)
        ELSE IF outcome = "unreadable"
        THEN left(rendering, FALSE, has_image,
                  << Report("ERROR", "Could not read temporary render file with OpenCV") >>)
        ELSE IF outcome = "load_raises"
        THEN left(original, FALSE, has_image,
                  << Report("INFO", "Successfully loaded render"),
                     Report("ERROR", "Error rendering view") >>)
        ELSE left(original, TRUE, TRUE,
                  << Report("INFO", "Successfully loaded render"),
                     IF has_image
                     THEN Report("INFO", "Updated existing RC_Current_Render image")
                     ELSE Report("INFO", "Created new RC_Current_Render image") >>)

\* show_image_in_editor: whether the image editor shows the image afterwards,
\* and the report
show_image_in_editor(sc) ==
    IF sc.editor = "open"
    THEN [displayed |-> TRUE,
          reports |-> << Report("INFO", "Displaying RC_Current_Render in Image Editor") >>]
    ELSE IF sc.editor = "splittable"
    THEN [displayed |-> sc.displayed,
          reports |-> << Report("INFO", "Open an Image Editor to view the rendered image") >>]
    ELSE [displayed |-> sc.displayed, reports |-> << >>]

\* the operator before execute
NoRenderOperator ==
    [status |-> "NONE", instance |-> 0, setup |-> FALSE,
     original_visibilities |-> << >>, outcome |-> "none"]

\* RCMETRICS_OT_Render.execute
Render_execute ==
    /\ render_op.instance < MaxRenders
    /\ LET returned(status, setup, visibilities, outcome) ==
               render_op' = [status |-> status, instance |-> render_op.instance + 1,
                             setup |-> setup, original_visibilities |-> visibilities,
                             outcome |-> outcome]
           camera == check_active_camera(render_scene)
           selected == IF render_scene.selection_type = "MESH"
                       THEN render_scene.selected_mesh
                       ELSE render_scene.selected_collection
       IN  IF camera # << >>
           THEN /\ returned("CANCELLED", FALSE, << >>, "none")
                /\ reports' = reports \o camera
                /\ UNCHANGED render_scene
           ELSE IF ~Selected(selected)
           THEN /\ returned("CANCELLED", FALSE, << >>, "none")
                /\ reports' = reports \o
                       << IF render_scene.selection_type = "MESH"
                          THEN Report("ERROR", "No mesh selected")
                          ELSE Report("ERROR", "No collection selected") >>
                /\ UNCHANGED render_scene
           ELSE \E outcome \in RenderOutcomes :
                \E prepared \in {setup_scene_for_rendering(render_scene,
                                    render_scene.render_selected_only,
                                    render_scene.selection_type,
                                    IF render_scene.selection_type = "MESH"
                                    THEN render_scene.selected_mesh ELSE "",
                                    IF render_scene.selection_type = "MESH"
                                    THEN "" ELSE render_scene.selected_collection)},
                   view \in {render_current_view(render_scene.settings,
                                                 render_scene.RC_Current_Render, outcome)} :
                    /\ render_scene' =
                           [render_scene EXCEPT
                               !.objects = restore_scene_after_rendering(
                                               prepared.objects,
                                               prepared.original_visibilities),
                               !.settings = view.settings,
                               !.RC_Current_Render = view.image,
                               !.displayed = IF view.render_array
                                             THEN show_image_in_editor(render_scene).displayed
                                             ELSE render_scene.displayed]
                    /\ returned(IF view.render_array THEN "FINISHED" ELSE "CANCELLED",
                                TRUE, prepared.original_visibilities, outcome)
                    /\ reports' = reports \o prepared.reports
                           \o << Report("INFO", "Rendering current view...") >>
                           \o view.reports
                           \o (IF view.render_array
                               THEN show_image_in_editor(render_scene).reports \o
                                    << Report("INFO", "Rendering completed successfully") >>
                               ELSE << Report("ERROR", "Failed to get render result") >>)
    /\ UNCHANGED <<compare_vars, batch_vars, image_metrics, folder>>

\* the scene the render operator finds: three meshes, one of them in a child
\* collection and one in no collection, and the camera
MeshObjects == {"Mesh", "Part", "Prop"}

RenderObjects(hidden) ==
    [n \in MeshObjects \cup {"Camera"} |->
        IF n = "Camera" THEN Object("CAMERA", FALSE) ELSE Object("MESH", n \in hidden)]

RenderCollections ==
    [c \in {"Scan", "Parts"} |->
        IF c = "Scan" THEN Collection({"Mesh", "Camera"}, {"Parts"})
        ELSE Collection({"Part"}, {})]

\* what the selection properties can hold: a listed name, or nothing when the
\* stored choice is no longer listed
RenderSelections ==
    ({"MESH"} \X (MeshObjects \cup {""}) \X {""})
        \cup ({"COLLECTION"} \X {""} \X (DOMAIN RenderCollections \cup {""}))

\* render settings of the user; JPEG has no alpha channel
UserSettings ==
    {RenderSettings("//renders/", "PNG", "RGBA", FALSE),
     RenderSettings("//renders/", "PNG", "RGB", TRUE),
     RenderSettings("//renders/", "JPEG", "RGB", FALSE),
     RenderSettings("//renders/", "JPEG", "BW", FALSE)}

RenderScene(objects, selection, render_selected_only, camera, bg_image, settings, editor) ==
    [objects |-> objects, collections |-> RenderCollections,
     selection_type |-> selection[1], selected_mesh |-> selection[2],
     selected_collection |-> selection[3],
     render_selected_only |-> render_selected_only,
     camera |-> camera, bg_image |-> bg_image, settings |-> settings,
     RC_Current_Render |-> FALSE, editor |-> editor, displayed |-> FALSE]

\* the render operator has not been used
RenderIdle ==
    /\ render_scene = RenderScene(RenderObjects({}), <<"MESH", "Mesh", "">>, TRUE, FALSE,
                                  FALSE, RenderSettings("//renders/", "PNG", "RGBA", FALSE),
                                  "none")
    /\ render_op = NoRenderOperator

\* ------------------------------------ image_utils.calculate_image_metrics
\* a numpy array of one grey level: shape is <<h, w, channels>>, <<h, w>> or
\* <<n>>, every element is level
Array(shape, level) == [shape |-> shape, level |-> level]

\* ndarray.size
size(img) ==
    IF Len(img.shape) = 1 THEN img.shape[1]
    ELSE IF Len(img.shape) = 2 THEN img.shape[1] * img.shape[2]
    ELSE img.shape[1] * img.shape[2] * img.shape[3]

\* cv2.resize(img, (w, h)): height and width change, the channels stay
cv2_resize(img, w, h) == [img EXCEPT !.shape = <<h, w>> \o SubSeq(img.shape, 3, Len(img.shape))]

\* cv2.cvtColor(img, cv2.COLOR_BGR2GRAY) raises unless img has 3 or 4 channels
cvtColor_raises(img) == Len(img.shape) # 3 \/ img.shape[3] \notin {3, 4}

cvtColor_BGR2GRAY(img) ==
    Array(<<img.shape[1], img.shape[2]>>,
          GrayOf(<<img.level, img.level, img.level>>, "BGR2GRAY"))

\* peak_signal_noise_ratio(ref_img, rendered_img) of arrays of one shape
psnr_of_arrays(image_true, image_test) ==
    LET err == (image_true.level - image_test.level) * (image_true.level - image_test.level)
    IN  IF err = 0 THEN PsnrInf ELSE PsnrDb(err, 1)

\* structural_similarity(ref_gray, rendered_gray): window of 7, no weights
structural_similarity(im1, im2) ==
    [kind |-> "gray", masked |-> FALSE,
     pairs |-> << [render |-> "Y", reference |-> "Y"] >>, same |-> im1 = im2]

structural_similarity_raises(im1) == Min(im1.shape[1], im1.shape[2]) < DefaultWin

Returned(psnr, ssim) == [raised |-> FALSE, psnr |-> psnr, ssim |-> ssim]
NonePair == Returned(PsnrNone, SsimNone)
Raised == [raised |-> TRUE, psnr |-> PsnrNone, ssim |-> SsimNone]

\* what can go wrong in the libraries, apart from what the arguments cause
Faults == {"none", "import", "resize", "gray", "metric"}

\* lines 15-78: the statements inside the outer try
calculate_image_metrics_body(ref_img, rendered_img, fault) ==
    IF fault = "import" THEN Raised
    ELSE IF ref_img = None \/ rendered_img = None THEN NonePair
    ELSE IF size(ref_img) = 0 \/ size(rendered_img) = 0 THEN NonePair
    ELSE IF ref_img.shape[1] < MinImageDim THEN NonePair
    ELSE IF Len(ref_img.shape) < 2 THEN Raised
    ELSE IF ref_img.shape[2] < MinImageDim \/ rendered_img.shape[1] < MinImageDim
    THEN NonePair
    ELSE IF Len(rendered_img.shape) < 2 THEN Raised
    ELSE IF rendered_img.shape[2] < MinImageDim THEN NonePair
    ELSE IF ref_img.shape # rendered_img.shape /\ fault = "resize" THEN NonePair
    ELSE LET resized == IF ref_img.shape # rendered_img.shape
                        THEN cv2_resize(rendered_img, ref_img.shape[2], ref_img.shape[1])
                        ELSE rendered_img
         IN  IF ref_img.shape # resized.shape THEN NonePair
             ELSE IF fault = "gray" \/ cvtColor_raises(ref_img) \/ cvtColor_raises(resized)
             THEN NonePair
             ELSE IF fault = "metric"
                     \/ structural_similarity_raises(cvtColor_BGR2GRAY(ref_img))
             THEN NonePair
             ELSE Returned(psnr_of_arrays(ref_img, resized),
                           structural_similarity(cvtColor_BGR2GRAY(ref_img),
                                                 cvtColor_BGR2GRAY(resized)))

\* the statements without the outer try
calculate_image_metrics_Unguarded(ref_img, rendered_img, fault) ==
    calculate_image_metrics_body(ref_img, rendered_img, fault)

\* calculate_image_metrics: the outer except turns every exception into
\* (None, None)
calculate_image_metrics(ref_img, rendered_img, fault) ==
    LET r == calculate_image_metrics_body(ref_img, rendered_img, fault)
    IN  IF r.raised THEN NonePair ELSE r

NoCall == [called |-> FALSE, ref_img |-> None, rendered_img |-> None,
           fault |-> "none", returned |-> NonePair]

\* image_utils.calculate_image_metrics(ref_img, rendered_img)
calculate_image_metrics_call ==
    /\ ~image_metrics.called
    /\ image_metrics' =
           [image_metrics EXCEPT
               !.called = TRUE,
               !.returned = calculate_image_metrics(image_metrics.ref_img,
                                image_metrics.rendered_img, image_metrics.fault)]
    /\ UNCHANGED <<compare_vars, batch_vars, reports, render_scene, render_op, folder>>

\* heights and widths around the minimum, and the empty extent
ImageSides == {0, MinImageDim - 1} \cup (MinImageDim .. MaxSide)

\* colour, four-channel, two-dimensional and one-dimensional arrays
ArrayShapes ==
    {<<h, w, c>> : h \in ImageSides, w \in ImageSides, c \in {3, 4}}
        \cup (ImageSides \X ImageSides)
        \cup {<<n>> : n \in ImageSides}

\* calculate_image_metrics has not been called
ImageMetricsIdle == image_metrics = NoCall

\* ------------------------ RCMETRICS_OT_ImportRC.check_rc_folder_structure
\* file names are sequences of characters
Abc == <<".", "a", "b", "c">>
Png == <<".", "p", "n", "g">>
DiffusePng == <<"_", "d", "i", "f", "f", "u", "s", "e">> \o Png

\* str.endswith
endswith(f, suffix) ==
    Len(f) >= Len(suffix) /\ SubSeq(f, Len(f) - Len(suffix) + 1, Len(f)) = suffix

\* every name ending in .png is a photo
IsImageFile_AnyPng(f) == endswith(f, Png)

\* f.endswith('.png') and not f.endswith('_diffuse.png')
IsImageFile(f) == endswith(f, Png) /\ ~endswith(f, DiffusePng)

\* the names a folder may hold, in the order os.listdir gives them
FileNames ==
    << <<"m">> \o Abc, <<"n">> \o Abc, <<"1">> \o Png, <<"2">> \o Png,
       <<"3">> \o Png, <<"t">> \o DiffusePng, DiffusePng,
       <<"x", ".", "P", "N", "G">>, <<"r", ".", "t", "x", "t">> >>

listdir(entries) == SelectSeq(FileNames, LAMBDA f : f \in entries)

\* False
Rejected(said) ==
    [ok |-> FALSE, raised |-> FALSE, abc_file |-> None, png_files |-> << >>,
     texture_file |-> None, reports |-> said]

\* check_rc_folder_structure(folder_path): os.listdir raises on a path that
\* is not a directory
check_rc_folder_structure(fd) ==
    LET abc_files == SelectSeq(listdir(fd.entries), LAMBDA f : endswith(f, Abc))
        png_files == SelectSeq(listdir(fd.entries), IsImageFile)
        texture_files == SelectSeq(listdir(fd.entries), LAMBDA f : endswith(f, DiffusePng))
    IN  IF fd.kind = "missing"
        THEN Rejected(<< Report("ERROR", "Folder does not exist") >>)
        ELSE IF fd.kind = "file" THEN [Rejected(<< >>) EXCEPT !.raised = TRUE]
        ELSE IF abc_files = << >>
        THEN Rejected(<< Report("ERROR", "No .abc file found in the folder") >>)
        ELSE IF Len(png_files) < MinImages
        THEN Rejected(<< Report("ERROR", "Not enough image files found in the folder") >>)
        ELSE [ok |-> TRUE, raised |-> FALSE, abc_file |-> abc_files[1],
              png_files |-> png_files,
              texture_file |-> IF texture_files # << >> THEN texture_files[1] ELSE None,
              reports |-> IF texture_files = << >>
                          THEN << Report("WARNING", "No texture file found, but proceeding anyway") >>
                          ELSE << >>]

Folder(kind, entries) ==
    [kind |-> kind, entries |-> entries, called |-> FALSE, returned |-> Rejected(<< >>)]

\* self.check_rc_folder_structure(folder_path)
check_rc_folder_structure_call ==
    /\ ~folder.called
    /\ \E r \in {check_rc_folder_structure(folder)} :
        /\ folder' = [folder EXCEPT !.called = TRUE, !.returned = r]
        /\ reports' = reports \o r.reports
    /\ UNCHANGED <<compare_vars, batch_vars, render_scene, render_op, image_metrics>>

\* check_rc_folder_structure has not been called
FolderIdle == folder = Folder("missing", {})

\* none of the three tools has been used
ToolsIdle ==
    /\ RenderIdle
    /\ ImageMetricsIdle
    /\ FolderIdle

\* thresholds as registered: 30.0 dB and 0.9
DefaultPsnrThreshold == 30000
DefaultSsimThreshold == 900

NoFiles == [metrics_file |-> NoFile, json_file |-> NoFile, save_called |-> FALSE,
            save_returned |-> FALSE, saved_data |-> None]
NotLoaded == [called |-> FALSE, data |-> None]

Scene(mesh, objects, outcome, makedirs_ok) ==
    [mesh |-> mesh, mesh_name |-> "Mesh", objects |-> objects,
     outcome |-> outcome, makedirs_ok |-> makedirs_ok]

\* no batch calculation was started
BatchIdle ==
    /\ cameras = << >>
    /\ scene = Scene(FALSE, {}, << >>, TRUE)
    /\ rc_calc = CalcProps(Float(DefaultPsnrThreshold), Float(DefaultSsimThreshold),
                           FALSE, "")
    /\ op = NoOperator
    /\ files = NoFiles
    /\ loaded = NotLoaded

Init ==
    /\ \/ InitGeometry
       \/ InitValues
       \/ InitViews
       \/ InitResize
       \/ InitFailures
    /\ RC_Difference = NoImage
    /\ RC_Edge_Mask = NoImage
    /\ reports = << >>
    /\ result = "NONE"
    /\ metrics = NoMetrics
    /\ arrays = NoArrays
    /\ BatchIdle
    /\ ToolsIdle

Next == Compare_execute

Spec == Init /\ [][Next]_vars

\* ------------------------------------------------------- batch: the inputs
CameraNames ==
    << "C0001_DSC.png", "C0002_DSC.png", "C0003_DSC.png", "C0004_DSC.png",
       "C0005_DSC.png" >>

NamesUpTo(n) == {CameraNames[i] : i \in 1 .. n}

NoRender == Outcome(FALSE, TRUE, FALSE, Float(0), Float(0))
NoReference == Outcome(TRUE, FALSE, FALSE, Float(0), Float(0))
NoMeasure == Outcome(TRUE, TRUE, FALSE, Float(0), Float(0))
Measured(psnr, ssim) == Outcome(TRUE, TRUE, TRUE, psnr, ssim)

\* outcomes of the queue runs: the three ways to fail and one success
QueueOutcomes == {NoRender, NoReference, NoMeasure, Measured(Float(35000), Float(950))}

\* measured values around the thresholds, a perfect match (PSNR +inf) and an
\* anti-correlated pair (SSIM < 0)
ValueOutcomes ==
    {Measured(Float(DefaultPsnrThreshold), Float(DefaultSsimThreshold)),
     Measured(Float(29999), Float(950)),
     Measured(Float(35000), Float(899)),
     Measured(Float(35000), Float(950)),
     Measured(Float(25000), Float(1000)),
     Measured(PosInf, Float(1000)),
     Measured(Float(12000), Float(0 - 500))}

\* the panel list after update_camera_list, with the ticks of the user
CameraList(n, enabled) == [i \in 1 .. n |-> CameraItem(CameraNames[i], enabled[i])]

\* the compare operator has not been used
CompareIdle ==
    /\ render_file = RenderFile(1, 1, 3, Grey(0), "opaque")
    /\ bg_file = PhotoFile(1, 1, 3, Grey(0))
    /\ env = [EnvOk EXCEPT !.render_img = FALSE]
    /\ rc_metrics = Props("NO_TRANSPARENT", 1, "GRAY", "COLORIZED", 10)
    /\ RC_Difference = NoImage
    /\ RC_Edge_Mask = NoImage
    /\ result = "NONE"
    /\ metrics = NoMetrics
    /\ arrays = NoArrays

\* queues of every length, ticks, missing objects and failing cameras
InitQueue ==
    \E n \in 0 .. MaxCameras :
    \E enabled \in [1 .. n -> BOOLEAN], outcome \in [NamesUpTo(n) -> QueueOutcomes],
       missing \in BOOLEAN, mesh \in BOOLEAN, save_renders \in BOOLEAN :
        /\ missing => n >= 1
        /\ ~mesh => (n = 1 /\ ~missing /\ ~save_renders)
        /\ cameras = CameraList(n, enabled)
        /\ scene = Scene(mesh, IF missing THEN NamesUpTo(n - 1) ELSE NamesUpTo(n),
                         outcome, TRUE)
        /\ rc_calc = CalcProps(Float(DefaultPsnrThreshold),
                               Float(DefaultSsimThreshold), save_renders, "out")

\* measured values and thresholds vary on one or two cameras
InitMeasured ==
    \E n \in 1 .. 2 :
    \E outcome \in [NamesUpTo(n) -> ValueOutcomes],
       thresholds \in {<<DefaultPsnrThreshold, DefaultSsimThreshold>>, <<25000, 950>>},
       save_renders \in BOOLEAN :
        /\ cameras = CameraList(n, [i \in 1 .. n |-> TRUE])
        /\ scene = Scene(TRUE, NamesUpTo(n), outcome, TRUE)
        /\ rc_calc = CalcProps(Float(thresholds[1]), Float(thresholds[2]),
                               save_renders, "out")

\* output directories that cannot be created
InitUnwritable ==
    \E outcome \in [NamesUpTo(1) -> ValueOutcomes], save_renders \in BOOLEAN,
       metrics_output \in {"", "out"} :
        /\ cameras = CameraList(1, <<TRUE>>)
        /\ scene = Scene(TRUE, NamesUpTo(1), outcome, FALSE)
        /\ rc_calc = CalcProps(Float(DefaultPsnrThreshold),
                               Float(DefaultSsimThreshold), save_renders,
                               metrics_output)

InitBatch ==
    /\ \/ InitQueue
       \/ InitMeasured
       \/ InitUnwritable
    /\ op = NoOperator
    /\ files = NoFiles
    /\ loaded = NotLoaded
    /\ reports = << >>
    /\ CompareIdle
    /\ ToolsIdle

EventTypes == {"TIMER", "MOUSEMOVE"}

NextBatch ==
    \/ invoke
    \/ \E type \in EventTypes : modal(type)
    \/ CancelCalculation_execute

SpecBatch == InitBatch /\ [][NextBatch]_vars

\* the timer added by invoke fires every 2 seconds while it is registered
FairBatch == SpecBatch /\ WF_vars(modal("TIMER"))

InitJson ==
    /\ \/ InitMeasured
       \/ InitUnwritable
    /\ op = NoOperator
    /\ files = NoFiles
    /\ loaded = NotLoaded
    /\ reports = << >>
    /\ CompareIdle
    /\ ToolsIdle

NextJson ==
    \/ NextBatch
    \/ save_json_call
    \/ load_json_call

SpecJson == InitJson /\ [][NextJson]_vars

\* --------------------------------------------------- the camera selection
\* indexes an operator call can carry: -1 (use the active index), the list
\* positions and two positions past the end
CameraIndexes == (0 - 1) .. (MaxCameras + 1)

\* a camera list with any ticks and any active index the panel can hold
InitSelect ==
    /\ \E n \in 0 .. MaxCameras :
       \E enabled \in [1 .. n -> BOOLEAN], active \in (0 - 1) .. (n - 1),
          missing \in BOOLEAN :
           /\ missing => n >= 1
           /\ cameras = CameraList(n, enabled)
           /\ scene = Scene(TRUE, IF missing THEN NamesUpTo(n - 1) ELSE NamesUpTo(n),
                            [c \in NamesUpTo(n) |-> NoRender], TRUE)
           /\ rc_calc = [CalcProps(Float(DefaultPsnrThreshold),
                                   Float(DefaultSsimThreshold), FALSE, "")
                            EXCEPT !.active_camera_index = active]
    /\ op = NoOperator
    /\ files = NoFiles
    /\ loaded = NotLoaded
    /\ reports = << >>
    /\ CompareIdle
    /\ ToolsIdle

NextSelect == \E camera_index \in CameraIndexes : SelectCamera_execute(camera_index)

SpecSelect == InitSelect /\ [][NextSelect]_vars

\* ------------------------------------------------------- successive runs
\* two cameras of a freshly filled list, any ticks, each measurable or not
InitRuns ==
    /\ \E enabled \in [1 .. 2 -> BOOLEAN],
          outcome \in [NamesUpTo(2) -> {Measured(Float(35000), Float(950)), NoMeasure}] :
           /\ cameras = CameraList(2, enabled)
           /\ scene = Scene(TRUE, NamesUpTo(2), outcome, TRUE)
           /\ rc_calc = CalcProps(Float(DefaultPsnrThreshold),
                                  Float(DefaultSsimThreshold), FALSE, "out")
    /\ op = NoOperator
    /\ files = NoFiles
    /\ loaded = NotLoaded
    /\ reports = << >>
    /\ CompareIdle
    /\ ToolsIdle

NextRuns ==
    \/ NextBatch
    \/ \E camera_index \in CameraIndexes : SelectCamera_execute(camera_index)
    \/ activate_mesh
    \/ operator_new

SpecRuns == InitRuns /\ [][NextRuns]_vars

\* ----------------------------------------- the render operator: the inputs
InitRender ==
    /\ \E hidden \in SUBSET MeshObjects, selection \in RenderSelections,
          render_selected_only \in BOOLEAN, settings \in UserSettings,
          found \in {<<TRUE, TRUE>>, <<TRUE, FALSE>>, <<FALSE, FALSE>>},
          editor \in {"open", "splittable", "none"} :
        render_scene = RenderScene(RenderObjects(hidden), selection, render_selected_only,
                                   found[1], found[2], settings, editor)
    /\ render_op = NoRenderOperator
    /\ ImageMetricsIdle
    /\ FolderIdle
    /\ reports = << >>
    /\ CompareIdle
    /\ BatchIdle

NextRender == Render_execute

SpecRender == InitRender /\ [][NextRender]_vars

\* ------------------------------ calculate_image_metrics: the arguments
InitImageMetrics ==
    /\ \E ref_img \in {None} \cup {Array(s, 100) : s \in ArrayShapes},
          rendered_img \in {None} \cup {Array(s, v) : s \in ArrayShapes, v \in {100, 110}},
          fault \in Faults :
        image_metrics = [NoCall EXCEPT !.ref_img = ref_img,
                                       !.rendered_img = rendered_img,
                                       !.fault = fault]
    /\ RenderIdle
    /\ FolderIdle
    /\ reports = << >>
    /\ CompareIdle
    /\ BatchIdle

NextImageMetrics == calculate_image_metrics_call

SpecImageMetrics == InitImageMetrics /\ [][NextImageMetrics]_vars

\* ------------------------------- check_rc_folder_structure: the folders
InitFolder ==
    /\ \E kind \in {"missing", "file", "dir"}, entries \in SUBSET {FileNames[i] : i \in DOMAIN FileNames} :
        /\ kind # "dir" => entries = {}
        /\ Cardinality(entries) <= MaxEntries
        /\ folder = Folder(kind, entries)
    /\ RenderIdle
    /\ ImageMetricsIdle
    /\ reports = << >>
    /\ CompareIdle
    /\ BatchIdle

NextFolder == check_rc_folder_structure_call

SpecFolder == InitFolder /\ [][NextFolder]_vars

\* ================================================================ claims
Ran == result # "NONE"
Finished == result = "FINISHED"
Mode == rc_metrics.compare_mode
RenderPixels == Pixels(render_file.h, render_file.w)

\* execute reached the metric routine with two colour images
Compared == Ran /\ env = EnvOk /\ render_file.ch >= 3 /\ bg_file.ch >= 3

\* the arrays the routines are handed, element by element
RenderAt(p) == render_file.px[p]
OriginalAt(p) ==
    SwapRB(bg_file.px[IF <<bg_file.h, bg_file.w>> = <<render_file.h, render_file.w>>
                      THEN p ELSE <<0, 0>>])

\* pixels of the render with alpha > 0 (every pixel without alpha channel)
OpaquePixels ==
    IF render_file.ch = 4 THEN {p \in RenderPixels : render_file.px[p][4] > 0}
    ELSE RenderPixels

Sq(x) == x * x

\* sum over the pixels of S and the three channels of (a - b)^2
ExactSquaredError(S) ==
    LET w == render_file.w
        f == [i \in 0 .. render_file.h * w - 1 |->
                LET p == PixelAt(i, w)
                IN  IF p \in S
                    THEN Sq(RenderAt(p)[1] - OriginalAt(p)[1])
                         + Sq(RenderAt(p)[2] - OriginalAt(p)[2])
                         + Sq(RenderAt(p)[3] - OriginalAt(p)[3])
                    ELSE 0]
    IN  SumFn(f, render_file.h * w)

HasReport(level) == \E i \in DOMAIN reports : reports[i][1] = level

\* C1: in every comparison mode the MSE behind the PSNR is the mean over
\* the eligible pixels and the three channels of the exact squared
\* difference (a - b)^2 of the 8-bit values, never reduced modulo 2^8.
C1_MseIsExactSquaredDifference ==
    (Finished /\ metrics.valid_pixel_count > 0) =>
        /\ metrics.mse_den = 3 * Cardinality(metrics.mask)
        /\ metrics.mse_num = ExactSquaredError(metrics.mask)

\* C2: whenever the MSE over the eligible pixels is exactly 0 the reported
\* PSNR is the finite sentinel 100 dB, in every comparison mode.
C2_PerfectMatchIsSentinel ==
    (Finished /\ metrics.valid_pixel_count > 0
              /\ ExactSquaredError(metrics.mask) = 0) =>
        /\ metrics.psnr = PsnrConst(PsnrSentinel)
        /\ rc_metrics.last_psnr = PsnrConst(PsnrSentinel)

\* the render is the reference plus the same offset d >= 0 on every colour
\* channel of every pixel
IsGrey(v) == v[1] = v[2] /\ v[2] = v[3]
UniformOffset(d) ==
    /\ <<bg_file.h, bg_file.w>> = <<render_file.h, render_file.w>>
    /\ \A p \in RenderPixels :
          /\ IsGrey(bg_file.px[p])
          /\ \A c \in 1 .. 3 : render_file.px[p][c] = bg_file.px[p][c] + d

\* the same render with offset e in place of d
WithOffset(e) ==
    [render_file EXCEPT !.px =
        [p \in RenderPixels |->
            [c \in 1 .. render_file.ch |->
                IF c <= 3 THEN bg_file.px[p][c] + e ELSE render_file.px[p][c]]]]

GreyLevels == {v[1] : v \in {u \in Palette : IsGrey(u)}}
Offsets == {a - b : a \in GreyLevels, b \in GreyLevels} \cap (0 .. PixelMax)

\* C3: for a fixed reference and a copy of it with a uniform offset d, the
\* MSE over the eligible pixels strictly increases with d (so the PSNR
\* strictly decreases), in every comparison mode.
C3_MseStrictlyIncreasesWithOffset ==
    \A d \in Offsets :
        (Finished /\ metrics.valid_pixel_count > 0 /\ UniformOffset(d)) =>
            \A e \in Offsets :
                e < d =>
                    LET smaller == calculate_metrics(to_rgb(imread(WithOffset(e))),
                                                     imread(bg_file), rc_metrics)
                    IN  /\ smaller.mse_den = metrics.mse_den
                        /\ smaller.mse_num < metrics.mse_num

\* the render has an alpha channel that is 0 everywhere
FullyTransparent == render_file.ch = 4 /\ OpaquePixels = {}

\* C4: a mask with zero eligible pixels (EXCLUDE_TRANSPARENT or EDGES_ONLY
\* with a render whose alpha is 0 everywhere) yields psnr = 0, ssim = 0 and
\* a WARNING, and the comparison completes instead of failing.
C4_EmptyMaskIsDegenerateResult ==
    (Compared /\ FullyTransparent /\ Mode \in {"NO_TRANSPARENT", "EDGES_ONLY"}) =>
        /\ Finished
        /\ metrics.psnr = PsnrConst(0)
        /\ metrics.ssim = SsimZero
        /\ rc_metrics.last_psnr = PsnrConst(0)
        /\ rc_metrics.last_ssim = SsimZero
        /\ HasReport("WARNING")
        /\ ~HasReport("ERROR")

C4_Witness ==
    /\ Compared /\ FullyTransparent /\ Mode = "EDGES_ONLY"
    /\ Finished /\ metrics.valid_pixel_count = 0

\* the frame of thickness t of an h x w image
Frame(h, w, t) ==
    {p \in Pixels(h, w) : p[1] < t \/ p[1] >= h - t \/ p[2] < t \/ p[2] >= w - t}

FrameCount(h, w, t) == h * w - Max(0, h - 2 * t) * Max(0, w - 2 * t)

\* C5: the edge mask of thickness t >= 1 of an H x W image, before any
\* alpha intersection, is the frame {r < t or r >= H-t or c < t or c >= W-t}
\* and has H*W - max(0, H-2t)*max(0, W-2t) pixels.
C5_EdgeBandIsFrame ==
    LET h == render_file.h
        w == render_file.w
        t == rc_metrics.edge_thickness
    IN  /\ EdgeBand(h, w, t) = Frame(h, w, t)
        /\ Cardinality(EdgeBand(h, w, t)) = FrameCount(h, w, t)
        /\ (Compared /\ Mode = "EDGES_ONLY" /\ render_file.ch = 3) =>
               /\ metrics.mask = Frame(h, w, t)
               /\ metrics.valid_pixel_count = FrameCount(h, w, t)

C5_Witness ==
    /\ Finished /\ Mode = "EDGES_ONLY" /\ render_file.ch = 3
    /\ 2 * rc_metrics.edge_thickness >= render_file.h
    /\ metrics.valid_pixel_count = render_file.h * render_file.w

\* the scoring mask EDGES_ONLY is to use
ExpectedEdgeMask ==
    LET band == Frame(render_file.h, render_file.w, rc_metrics.edge_thickness)
    IN  IF render_file.ch # 4 THEN band
        ELSE IF band \cap OpaquePixels # {} THEN band \cap OpaquePixels
        ELSE OpaquePixels

\* C6: in EDGES_ONLY with a 4-channel render the scoring mask is (edge band
\* AND alpha > 0) when that is non-empty and the plain transparency mask
\* otherwise; without alpha channel it is the edge band.
C6_EdgeMaskFallsBackToAlpha ==
    (Compared /\ Mode = "EDGES_ONLY") =>
        /\ metrics.mask = ExpectedEdgeMask
        /\ metrics.valid_pixel_count = Cardinality(ExpectedEdgeMask)
        /\ Finished /\ metrics.valid_pixel_count > 0 =>
              /\ metrics.mse_num = ExactSquaredError(ExpectedEdgeMask)
              /\ \A p \in RenderPixels :
                    (RC_Edge_Mask.px[p][4] = EdgeVisAlpha) <=> (p \in ExpectedEdgeMask)

C6_Witness ==
    /\ Finished /\ Mode = "EDGES_ONLY" /\ render_file.ch = 4
    /\ OpaquePixels # {}
    /\ Frame(render_file.h, render_file.w, rc_metrics.edge_thickness)
           \cap OpaquePixels = {}
    /\ metrics.mask = OpaquePixels

\* the squared error as uint8 arithmetic leaves it, over the pixels of S
WrapSq(a, b) == (Sq((a - b) % U8Mod)) % U8Mod
WrappedSquaredError(S) ==
    LET w == render_file.w
        f == [i \in 0 .. render_file.h * w - 1 |->
                LET p == PixelAt(i, w)
                IN  IF p \in S
                    THEN WrapSq(RenderAt(p)[1], OriginalAt(p)[1])
                         + WrapSq(RenderAt(p)[2], OriginalAt(p)[2])
                         + WrapSq(RenderAt(p)[3], OriginalAt(p)[3])
                    ELSE 0]
    IN  SumFn(f, render_file.h * w)

\* C7: in EXCLUDE_TRANSPARENT the pixels that contribute to the PSNR are
\* exactly those with render alpha > 0 (all pixels without alpha channel);
\* in every mode at most H*W pixels contribute.
C7_TransparentPixelsExcluded ==
    /\ (Compared /\ Mode = "NO_TRANSPARENT") =>
          /\ metrics.mask = OpaquePixels
          /\ metrics.valid_pixel_count = Cardinality(OpaquePixels)
          /\ metrics.valid_pixel_count > 0 =>
                /\ metrics.mse_num = WrappedSquaredError(OpaquePixels)
                /\ metrics.mse_den = 3 * Cardinality(OpaquePixels)
    /\ Compared =>
          /\ metrics.valid_pixel_count = Cardinality(metrics.mask)
          /\ metrics.mask \subseteq RenderPixels
          /\ metrics.valid_pixel_count <= render_file.h * render_file.w

C7_Witness ==
    /\ Finished /\ Mode = "NO_TRANSPARENT" /\ render_file.ch = 4
    /\ metrics.mask # {} /\ metrics.mask # RenderPixels
    /\ \E p \in metrics.mask : render_file.px[p][4] < PixelMax

\* the pixels eligible under the selected comparison mode
EligiblePixels ==
    IF Mode = "STANDARD" THEN RenderPixels
    ELSE IF Mode = "NO_TRANSPARENT" THEN OpaquePixels
    ELSE metrics.mask

HasDiff == Finished /\ HasImage(RC_Difference)

\* C8: the diff image's alpha is 255 exactly on the pixels eligible under
\* the selected comparison mode and 0 elsewhere, for every diff_view_mode.
C8_DiffAlphaMirrorsScoringMask ==
    HasDiff =>
        \A p \in RenderPixels :
            RC_Difference.px[p][4] = (IF p \in EligiblePixels THEN PixelMax ELSE 0)

\* C9: with COLORIZED and multiplier m every colour channel of a masked
\* pixel of the diff image is min(255, floor(|A - B| * m)), which for
\* m = 1.0 is |A - B| exactly, and every colour channel of an unmasked
\* pixel is 0.
C9_ColorizedDiffIsAbsoluteDifference ==
    (HasDiff /\ rc_metrics.diff_view_mode = "COLORIZED") =>
        \A p \in RenderPixels : \A c \in 1 .. 3 :
            LET d == Abs(RenderAt(p)[c] - OriginalAt(p)[c])
                v == RC_Difference.px[p][c]
            IN  /\ v \in 0 .. PixelMax
                /\ RC_Difference.px[p][4] = 0 => v = 0
                /\ RC_Difference.px[p][4] # 0 =>
                      /\ v = Min(PixelMax, (d * rc_metrics.diff_multiplier) \div 2)
                      /\ rc_metrics.diff_multiplier = 2 => v = d

C9_Witness ==
    /\ HasDiff /\ rc_metrics.diff_view_mode = "COLORIZED"
    /\ rc_metrics.diff_multiplier = 2
    /\ \E p \in RenderPixels : RC_Difference.px[p][4] = 0
    /\ \E p \in RenderPixels :
          /\ RC_Difference.px[p][4] = PixelMax
          /\ RC_Difference.px[p][1] = Abs(RenderAt(p)[1] - OriginalAt(p)[1])
          /\ RC_Difference.px[p][1] > 0

\* C10: every per-channel comparison pairs colour channel c of the render
\* with the same colour channel c of the reference (files hold R, G, B in
\* this order): the diff image, the squared difference, the per-channel SSIM.
C10_ChannelsPairedByColour ==
    (Finished /\ <<bg_file.h, bg_file.w>> = <<render_file.h, render_file.w>>) =>
        /\ (HasImage(RC_Difference) /\ rc_metrics.diff_view_mode = "COLORIZED"
                /\ rc_metrics.diff_multiplier = 2) =>
              \A p \in RenderPixels : \A c \in 1 .. 3 :
                  RC_Difference.px[p][4] # 0 =>
                      RC_Difference.px[p][c]
                          = Abs(render_file.px[p][c] - bg_file.px[p][c])
        /\ \A i \in DOMAIN metrics.ssim.pairs :
              metrics.ssim.pairs[i].render = metrics.ssim.pairs[i].reference

SameSize == <<bg_file.h, bg_file.w>> = <<render_file.h, render_file.w>>

\* the comparison of the same two files with their roles exchanged: the
\* reference is read as the render and the render as the reference
SwappedMetrics ==
    calculate_metrics(to_rgb(imread(bg_file)), imread(render_file), rc_metrics)

\* C11: for two images of equal size the PSNR of a comparison, and the MSE
\* it is computed from, are unchanged when the two images are swapped.
C11_PsnrSymmetricUnderSwap ==
    (Finished /\ SameSize) =>
        \E s \in {SwappedMetrics} :
            /\ s.psnr = metrics.psnr
            /\ s.mse_num = metrics.mse_num
            /\ s.mse_den = metrics.mse_den

\* the SSIM channel policy ssim_mode asks for
ExpectedSsimKind ==
    IF rc_metrics.ssim_mode = "GRAY" THEN "gray"
    ELSE IF rc_metrics.ssim_mode = "COLOR" THEN "color" ELSE "weighted"

\* C12: in every comparison mode the SSIM follows ssim_mode: the luma SSIM
\* for GRAY, the equal average of the three per-channel SSIMs for COLOR, the
\* weighted sum of them for WEIGHTED.
C12_SsimModeHonouredInEveryMode ==
    (Finished /\ metrics.valid_pixel_count > 0) =>
        /\ metrics.ssim.kind = ExpectedSsimKind
        /\ rc_metrics.last_ssim.kind = ExpectedSsimKind

\* execute got as far as the two arrays
ArraysLoaded == Ran /\ HasImage(arrays.render_array)

Shape(img) == <<img.h, img.w>>

\* C13: the render and the reference handed to the metric routines and to
\* the diff have the same height and width: when the files differ in size
\* the reference, not the render, is resized to the render's dimensions, so
\* masks and diff image have the render's height and width.
C13_SameDimensionsBeforeMetrics ==
    /\ (Ran /\ env = EnvOk /\ render_file.ch >= 3) => ArraysLoaded
    /\ ArraysLoaded =>
          /\ Shape(arrays.original_img) = Shape(arrays.render_array)
          /\ Shape(arrays.render_array) = Shape(render_file)
          /\ arrays.render_array = to_rgb(imread(render_file))
          /\ DOMAIN arrays.original_img.px = DOMAIN arrays.render_array.px
          /\ metrics.mask \subseteq DOMAIN arrays.render_array.px
          /\ HasImage(RC_Difference) => Shape(RC_Difference) = Shape(render_file)
          /\ HasImage(RC_Edge_Mask) => Shape(RC_Edge_Mask) = Shape(render_file)

C13_Witness ==
    /\ Finished /\ ArraysLoaded /\ ~SameSize
    /\ Shape(arrays.original_img) = Shape(render_file)
    /\ Shape(arrays.original_img) # Shape(bg_file)
    /\ HasImage(RC_Difference)

\* C20: the metric routines and create_diff_image leave the render array
\* and the reference array they are passed untouched, and the masks and
\* images they build live in buffers of their own.
C20_InputsAreReadOnly ==
    ArraysLoaded =>
        /\ arrays.stored \cap {ArgRender, ArgOriginal} = {}
        /\ arrays.results \cap {ArgRender, ArgOriginal} = {}
        /\ HasImage(RC_Difference) => arrays.results # {}

C20_Witness ==
    /\ Finished /\ Mode = "EDGES_ONLY" /\ HasImage(RC_Difference)
    /\ HasImage(RC_Edge_Mask)
    /\ arrays.stored # {}
    /\ Cardinality(arrays.results) >= 4

\* ---------------------------------------------------- claims on the batch
\* value a, in thousandths, is strictly below the finite threshold b
BelowThreshold(a, b) == a.den = 1 /\ b.den = 1 /\ a.num < b.num

\* C14: a camera that update_camera_results found and updated is flagged
\* is_problematic exactly when its psnr is strictly below the PSNR threshold
\* or its ssim strictly below the SSIM threshold; a value equal to its
\* threshold is not problematic (thresholds default to 30.0 and 0.9).
C14_ProblematicIffBelowThreshold ==
    \A i \in DOMAIN cameras :
        cameras[i].has_results =>
            (cameras[i].is_problematic <=>
                (\/ BelowThreshold(cameras[i].psnr, rc_calc.psnr_threshold)
                 \/ BelowThreshold(cameras[i].ssim, rc_calc.ssim_threshold)))

C14_Witness ==
    /\ rc_calc.psnr_threshold = Float(DefaultPsnrThreshold)
    /\ rc_calc.ssim_threshold = Float(DefaultSsimThreshold)
    /\ Len(cameras) = 2
    /\ cameras[1].has_results /\ ~cameras[1].is_problematic
    /\ cameras[1].psnr = rc_calc.psnr_threshold
    /\ cameras[1].ssim = rc_calc.ssim_threshold
    /\ cameras[2].has_results /\ cameras[2].is_problematic
    /\ cameras[2].psnr = Float(35000) /\ cameras[2].ssim = Float(899)

Summary == op._metrics_summary
HasSummary == op.status # "NONE" /\ DOMAIN Summary # {}
Recorded == IF HasSummary THEN Summary.cameras ELSE << >>

SameValue(a, b) ==
    IF a.den = 0 \/ b.den = 0 THEN a.den = b.den
    ELSE a.num * b.den = b.num * a.den

AtMost(a, b) ==
    b.den = 0 \/ (a.den # 0 /\ a.num * b.den <= b.num * a.den)

IsMinOf(v, key) ==
    /\ \E i \in DOMAIN Recorded : SameValue(Recorded[i][key], v)
    /\ \A i \in DOMAIN Recorded : AtMost(v, Recorded[i][key])

IsMaxOf(v, key) ==
    /\ \E i \in DOMAIN Recorded : SameValue(Recorded[i][key], v)
    /\ \A i \in DOMAIN Recorded : AtMost(Recorded[i][key], v)

\* numerator of the sum of the finite recorded values, in thousandths
RECURSIVE SumOfRecorded(_, _)
SumOfRecorded(key, i) ==
    IF i > Len(Recorded) THEN 0
    ELSE Recorded[i][key].num + SumOfRecorded(key, i + 1)

IsAverageOf(v, key) ==
    IF \E i \in DOMAIN Recorded : Recorded[i][key].den = 0 THEN v.den = 0
    ELSE /\ v.den # 0
         /\ \A i \in DOMAIN Recorded : Recorded[i][key].den = 1
         /\ v.num * Len(Recorded) = SumOfRecorded(key, 1) * v.den

\* C15: once the summary started by invoke holds at least one camera, its
\* min_psnr, max_psnr, min_ssim and max_ssim are the minimum and maximum of
\* the recorded psnr and ssim values (any ssim in [-1, 1], psnr >= 0) and
\* its averages are the sums of the recorded values divided by their count.
C15_SummaryAggregatesRecordedValues ==
    (HasSummary /\ Len(Recorded) >= 1) =>
        /\ IsMinOf(Summary.min_psnr, "psnr")
        /\ IsMaxOf(Summary.max_psnr, "psnr")
        /\ IsMinOf(Summary.min_ssim, "ssim")
        /\ IsMaxOf(Summary.max_ssim, "ssim")
        /\ IsAverageOf(Summary.average_psnr, "psnr")
        /\ IsAverageOf(Summary.average_ssim, "ssim")

\* the running operator is about to take the camera at the head of the queue
Running == op.status = "RUNNING_MODAL" /\ rc_calc.is_calculating
NextCamera == Head(op._camera_queue)

\* this step of modal popped a camera and handed it to process_camera
Popped ==
    /\ Running
    /\ Len(op._camera_queue) > 0
    /\ op'._camera_queue = Tail(op._camera_queue)

\* the camera has no render, no reference image, or no metrics
Failing(name) ==
    \/ ~scene.outcome[name].render
    \/ ~scene.outcome[name].reference
    \/ ~scene.outcome[name].measured

\* names of the cameras process_camera was entered for, in order
StartedCameras ==
    LET starts == SelectSeq(reports,
                      LAMBDA r : Len(r) = 3 /\ r[1] = "INFO"
                                 /\ r[2] \in {"Rendering from camera",
                                              "Processing camera"})
    IN  [i \in DOMAIN starts |-> starts[i][3]]

Warned(name) ==
    \E i \in DOMAIN reports :
        reports[i] = <<"WARNING", "Could not calculate metrics", name>>

EnabledCameras == get_enabled_cameras(cameras, scene.objects)

SkippedStep ==
    (Popped /\ Failing(NextCamera)) =>
        /\ op'._metrics_summary = op._metrics_summary
        /\ cameras' = cameras
        /\ rc_calc'.average_psnr = rc_calc.average_psnr
        /\ rc_calc'.average_ssim = rc_calc.average_ssim
        /\ rc_calc'.has_results = rc_calc.has_results
        /\ rc_calc'.is_calculating
        /\ op'.status = "RUNNING_MODAL"
        /\ Len(reports') = Len(reports) + 2
        /\ reports'[Len(reports')] =
               <<"WARNING", "Could not calculate metrics", NextCamera>>

CancelRequested == op.status = "RUNNING_MODAL" /\ ~rc_calc.is_calculating

\* the results computed so far
ResultsSoFar ==
    <<op._metrics_summary, cameras, rc_calc.average_psnr, rc_calc.average_ssim,
      rc_calc.has_results>>

\* the step of CancelCalculation.execute on a running operator
CancelStep ==
    (Running /\ ~rc_calc'.is_calculating /\ op'.status = "RUNNING_MODAL") =>
        /\ op' = op
        /\ ResultsSoFar' = ResultsSoFar
        /\ StartedCameras' = StartedCameras

\* the first modal event after the cancel
CancelledStep ==
    CancelRequested =>
        /\ op'.status = "CANCELLED"
        /\ op'._camera_queue = op._camera_queue
        /\ ResultsSoFar' = ResultsSoFar
        /\ StartedCameras' = StartedCameras
        /\ ~rc_calc'.is_calculating

TimerStep ==
    (Running /\ op' # op /\ op'.other_events = op.other_events) =>
        IF Len(op._camera_queue) > 0
        THEN /\ StartedCameras' = Append(StartedCameras, NextCamera)
             /\ op'._camera_queue = Tail(op._camera_queue)
             /\ op'.status = "RUNNING_MODAL"
             /\ rc_calc'.is_calculating
        ELSE /\ op'.status = "FINISHED"
             /\ ~rc_calc'.is_calculating
             /\ StartedCameras' = StartedCameras
             /\ ResultsSoFar' = ResultsSoFar

\* a step in which the running operator handled an event of another type
OtherEventStep ==
    (Running /\ op'.other_events # op.other_events) =>
        /\ StartedCameras' = StartedCameras
        /\ op'._camera_queue = op._camera_queue
        /\ ResultsSoFar' = ResultsSoFar
        /\ op'.status = "RUNNING_MODAL"

\* the cameras entered so far followed by the queue are the enabled cameras
InListOrder ==
    (op.status \in {"RUNNING_MODAL", "FINISHED"}) =>
        /\ StartedCameras \o op._camera_queue = EnabledCameras
        /\ Len(EnabledCameras) >= 1
        /\ op._total_cameras = Len(EnabledCameras)
        /\ \A i, j \in DOMAIN StartedCameras :
               StartedCameras[i] = StartedCameras[j] => i = j

FinishedAll ==
    /\ op.status = "FINISHED"
    /\ ~rc_calc.is_calculating
    /\ op._camera_queue = << >>
    /\ StartedCameras = EnabledCameras

SavedAndLoaded == files.save_called /\ files.save_returned /\ loaded.called

Stopped == op.status \in {"FINISHED", "CANCELLED"}

\* C23: whenever the CalculateMetrics operator has stopped, returning
\* FINISHED or CANCELLED, the event timer invoke added to the window manager
\* has been removed.
C23_TimerRemovedWhenStopped == Stopped => ~op._timer

\* 100 * k / n, in thousandths
Percent(k, n) == [num |-> 100000 * k, den |-> n]

ProgressWithinRange ==
    /\ AtMost(Float(0), rc_calc.calculation_progress)
    /\ AtMost(rc_calc.calculation_progress, Float(100000))

\* progress and current camera while the operator is running
ProgressFollowsQueue ==
    (op.status = "RUNNING_MODAL") =>
        /\ SameValue(rc_calc.calculation_progress,
                     Percent(Len(StartedCameras), op._total_cameras))
        /\ (rc_calc.is_calculating /\ Len(StartedCameras) >= 1) =>
               rc_calc.current_camera = StartedCameras[Len(StartedCameras)]

ProgressAtTheEnd ==
    /\ op.status = "FINISHED" =>
           SameValue(rc_calc.calculation_progress, Float(100000))
    /\ Stopped => rc_calc.current_camera = ""

ProgressNeverDecreases ==
    AtMost(rc_calc.calculation_progress, rc_calc'.calculation_progress)

\* C27: calculation_progress stays within [0, 100] and no step lowers it; it
\* is 100 * k / n while the operator runs with k of its n cameras taken from
\* the queue (0 after invoke) and 100 once it finished; current_camera is
\* the camera taken last while the run goes on and empty once the operator
\* finished or was cancelled.
C27_ProgressBoundedMonotoneAndExact ==
    /\ [](ProgressWithinRange /\ ProgressFollowsQueue /\ ProgressAtTheEnd)
    /\ [][ProgressNeverDecreases]_vars

\* two of three cameras taken: progress 66.67 and the second camera current
C27_Witness ==
    /\ Running
    /\ op._total_cameras = 3
    /\ Len(StartedCameras) = 2
    /\ SameValue(rc_calc.calculation_progress, Percent(2, 3))
    /\ rc_calc.current_camera = EnabledCameras[2]

\* invoke was called
RunStarted == op.status # "NONE"

MetricsFileWritten == files.metrics_file.exists

\* C29: within a run has_results is true exactly when the summary holds at
\* least one camera (false from invoke until the first camera is scored);
\* the metrics file exists only after a run that finished with has_results
\* and save_renders both true, and then it holds the summary; so a run in
\* which every camera failed and a cancelled run write no file.
C29_FileOnlyWithResults ==
    /\ RunStarted => (rc_calc.has_results <=> Len(Recorded) >= 1)
    /\ MetricsFileWritten =>
           /\ op.status = "FINISHED"
           /\ rc_calc.has_results /\ rc_calc.save_renders
           /\ Len(Recorded) >= 1
           /\ files.metrics_file.text = json_dump(op._metrics_summary)
    /\ (op.status = "FINISHED" /\ rc_calc.has_results /\ rc_calc.save_renders) =>
           MetricsFileWritten

\* a finished run that saved renders but in which both cameras failed
C29_Witness ==
    /\ op.status = "FINISHED"
    /\ rc_calc.save_renders
    /\ Len(StartedCameras) = 2
    /\ \A i \in 1 .. 2 : Failing(StartedCameras[i])
    /\ ~rc_calc.has_results
    /\ ~MetricsFileWritten

\* ------------------------------------------- claims on the camera selection
\* this step is a call of SelectCamera that reported the text
SelectStepReporting(text) ==
    /\ Len(reports') = Len(reports) + 1
    /\ reports'[Len(reports')][2] = text

EnabledIndexes(cams) == {i \in DOMAIN cams : cams[i].enabled}

\* a successful selection leaves exactly the camera at the index enabled,
\* makes it the active index and reports its name
SelectedStep ==
    SelectStepReporting("Selected camera") =>
        \E i \in DOMAIN cameras :
            /\ EnabledIndexes(cameras') = {i}
            /\ rc_calc'.active_camera_index = i - 1
            /\ reports'[Len(reports')][3] = cameras[i].name

\* a failed selection changes no tick and not the active index
FailedSelectStep ==
    SelectStepReporting("No camera selected") =>
        /\ EnabledIndexes(cameras') = EnabledIndexes(cameras)
        /\ rc_calc'.active_camera_index = rc_calc.active_camera_index

\* C30: a SelectCamera call with an index inside the list leaves exactly
\* that camera enabled, sets active_camera_index to it and reports its name;
\* a call with an index outside the list ('No camera selected') leaves every
\* camera's enabled flag and active_camera_index as they were.
C30_FailedSelectKeepsSelection == [][SelectedStep /\ FailedSelectStep]_vars

\* ------------------------------------------------ claims on successive runs
NamesOf(seq) == {seq[i] : i \in DOMAIN seq}

\* C24: when a batch calculation has finished, whatever runs and selections
\* came before, the cameras flagged has_results in the list (the ones
\* ExportResults exports) are exactly the cameras recorded in the summary of
\* this run (the ones average_psnr and average_ssim are computed from).
C24_FlaggedCamerasAreThisRunsCameras ==
    op.status = "FINISHED" =>
        NamesOf(ExportResults_cameras(cameras)) =
            {Recorded[i].camera : i \in DOMAIN Recorded}

\* ---------------------------------------------------------------- C28
LastValues == <<rc_metrics.last_psnr, rc_metrics.last_ssim>>

CompareStep == result = "NONE" /\ result' # "NONE"

\* nothing to compare, or the metric routine gave (None, None)
CompareFailed ==
    \/ ~load_images(render_file, bg_file, env).ok
    \/ metrics.psnr.kind = "none"
    \/ metrics.ssim.kind = "none"

\* C28: a comparison that fails (no RC_Current_Render image, unreadable render
\* or reference, no camera, no background image, a metric routine that gives
\* (None, None) or raises) returns CANCELLED, leaves last_psnr and last_ssim as
\* they were and creates no difference image; last_psnr and last_ssim change
\* only on a comparison that returns FINISHED.
C28_FailedCompareKeepsLastValues ==
    [][CompareStep =>
        /\ CompareFailed' => result' = "CANCELLED"
        /\ result' = "CANCELLED" =>
            /\ LastValues' = LastValues
            /\ RC_Difference' = RC_Difference
            /\ ~HasImage(RC_Difference')
        /\ LastValues' # LastValues => result' = "FINISHED"]_vars

\* both images were loaded, the metric routine failed, execute cancelled
C28_Witness ==
    /\ result = "CANCELLED"
    /\ load_images(render_file, bg_file, env).ok
    /\ metrics.psnr.kind = "none"
    /\ rc_metrics.last_psnr = PsnrConst(0)
    /\ rc_metrics.last_ssim = SsimZero

\* ---------------------------------------------- claims on the render operator
\* an execute that got as far as render_current_view
RenderViewStep == render_op' # render_op /\ render_op'.setup

\* C25: render_current_view restores the render settings on every exit path:
\* whether it returns a render, returns (None, None) because the temporary
\* file was not created or could not be read, or catches an exception,
\* filepath, file_format, color_mode and film_transparent are afterwards what
\* they were before the call.
C25_RenderSettingsRestored ==
    [][RenderViewStep => render_scene'.settings = render_scene.settings]_vars

MeshVisibility(objects) == [n \in MeshNames(objects) |-> objects[n].hide_render]

\* C26: execute leaves the render visibility of every mesh object as it was,
\* whether the render succeeded or failed and whether render_selected_only hid
\* other meshes for a MESH or a COLLECTION selection.
C26_VisibilityUnchangedByRender ==
    [][RenderViewStep =>
        MeshVisibility(render_scene'.objects) = MeshVisibility(render_scene.objects)]_vars

\* a failed render of the selected mesh alone: the setup hid Prop and showed
\* Mesh, afterwards Prop is visible and Mesh hidden as before
C26_Witness ==
    /\ render_op.setup
    /\ render_op.status = "CANCELLED"
    /\ render_scene.render_selected_only
    /\ render_scene.selection_type = "MESH"
    /\ render_scene.selected_mesh = "Mesh"
    /\ render_scene.objects["Mesh"].hide_render
    /\ ~render_scene.objects["Prop"].hide_render
    /\ render_op.original_visibilities = MeshVisibility(render_scene.objects)

\* ---------------------------------------- claims on calculate_image_metrics
GavePair ==
    /\ image_metrics.called
    /\ ~image_metrics.returned.raised
    /\ image_metrics.returned.psnr.kind # "none"
    /\ image_metrics.returned.ssim.kind # "none"

GaveNone == image_metrics.called /\ image_metrics.returned = NonePair

\* None, empty, or less than 10 pixels high or wide
Unusable(img) ==
    \/ img = None
    \/ size(img) = 0
    \/ img.shape[1] < MinImageDim
    \/ (Len(img.shape) >= 2 /\ img.shape[2] < MinImageDim)

\* the shape of rendered_img once it has the height and width of ref_img
ShapeAfterResize(ref_img, rendered_img) ==
    <<ref_img.shape[1], ref_img.shape[2]>> \o Tail(Tail(rendered_img.shape))

\* a library call of the resize, the grayscale conversion or the metrics fails
StageFails ==
    \/ image_metrics.fault \in {"gray", "metric"}
    \/ /\ image_metrics.fault = "resize"
       /\ image_metrics.ref_img.shape # image_metrics.rendered_img.shape

\* C21: calculate_image_metrics never raises; for an input that is None,
\* empty or less than 10 pixels high or wide, and for any failure during
\* resize, grayscale conversion or metric computation, it returns
\* (None, None); it returns a (psnr, ssim) pair only when both images are
\* valid and the rendered image, resized to the reference, has the shape of
\* the reference.
C21_ImageMetricsNeverRaises ==
    image_metrics.called =>
        /\ ~image_metrics.returned.raised
        /\ GavePair \/ GaveNone
        /\ (Unusable(image_metrics.ref_img) \/ Unusable(image_metrics.rendered_img))
               => GaveNone
        /\ (image_metrics.ref_img # None /\ image_metrics.rendered_img # None
                /\ StageFails) => GaveNone
        /\ GavePair =>
            /\ ~Unusable(image_metrics.ref_img)
            /\ ~Unusable(image_metrics.rendered_img)
            /\ Len(image_metrics.ref_img.shape) >= 2
            /\ Len(image_metrics.rendered_img.shape) >= 2
            /\ ShapeAfterResize(image_metrics.ref_img, image_metrics.rendered_img)
                   = image_metrics.ref_img.shape

\* a pair was returned for a render of another height and width
C21_Witness ==
    /\ GavePair
    /\ image_metrics.ref_img.shape # image_metrics.rendered_img.shape
    /\ image_metrics.returned.psnr = PsnrDb(100, 1)

\* ------------------------------------------------- claims on the folder check
Accepted == folder.called /\ folder.returned.ok

\* the entries whose name ends in suffix
Ending(suffix) == {f \in folder.entries : endswith(f, suffix)}

\* the photos: .png files that are not *_diffuse.png textures
Photos == Ending(Png) \ Ending(DiffusePng)

ListedImages == {folder.returned.png_files[i] : i \in DOMAIN folder.returned.png_files}

\* C22: a folder is accepted if and only if it exists, holds at least one
\* file ending in .abc and at least two files ending in .png that do not end
\* in _diffuse.png; a missing *_diffuse.png texture only gives a warning and
\* no rejection; on acceptance the returned image list holds no *_diffuse.png
\* file.
C22_FolderAcceptedIffAbcAndTwoImages ==
    folder.called =>
        /\ Accepted <=> /\ folder.kind # "missing"
                        /\ Ending(Abc) # {}
                        /\ Cardinality(Photos) >= 2
        /\ (Accepted /\ Ending(DiffusePng) = {}) =>
               /\ reports = << Report("WARNING", "No texture file found, but proceeding anyway") >>
               /\ folder.returned.texture_file = None
        /\ Accepted => /\ ListedImages = Photos
                       /\ ListedImages \cap Ending(DiffusePng) = {}
                       /\ folder.returned.abc_file \in Ending(Abc)

\* accepted with two photos next to a texture, which is not in the list
C22_Witness ==
    /\ Accepted
    /\ Cardinality(Photos) = 2
    /\ Ending(DiffusePng) # {}
    /\ folder.returned.texture_file \in Ending(DiffusePng)
    /\ Len(folder.returned.png_files) = 2
====
